---- MODULE Spec2Model ----
(***************************************************************************)
(* A model of the staleness-tracking and reference-resolution engine of    *)
(* translate-docs: getDocUpdateStatus / shouldTranslateDoc and the status  *)
(* loop of main (src/src/utils.ts, src/src/main.ts), getSourceRefContent,  *)
(* replaceContent and replaceSections (ref-docs.ts), and                   *)
(* shouldTranslateConfig / stripLabels (src/src/utils.ts).                 *)
(***************************************************************************)
EXTENDS Integers, Sequences, FiniteSets, TLC

VARIABLES
  pc,        \* main: position in the status loop of one language pass
  docIndex,  \* main: number of documents of filteredPaths already evaluated
  doc,       \* the files, metadata and commit times the current document sees
  status,    \* what getDocUpdateStatus did for the current document
  tasks,     \* main: the task list built so far
  lang,      \* main: position of the current language in LANGUAGES
  listOnly,  \* main: the list-only flag
  repo,      \* the documents of filteredPaths as found on disk, if known
  dirMade,   \* main: the output directory of the current language was created
  concurrency,  \* executeInBatches: the width it was called with
  jobs,      \* executeInBatches: the processors created for the items
  results,   \* executeInBatches: the value it returned
  rpc,       \* getSourceRefContent: position ("idle", "loop", "done")
  files,     \* getSourceRefContent: the file system, path -> file or NoFile
  filepath,  \* getSourceRefContent: the path to read next
  currentDepth,       \* getSourceRefContent: loop counter
  originFrontmatter,  \* getSourceRefContent: the previous hop, or NoOrigin
  reads,     \* getSourceRefContent: the paths read so far, in order
  resolved,  \* getSourceRefContent: the returned value
  spc,       \* replaceSections harness: "idle", "input", "done"
  secIn,     \* replaceSections harness: [text, origin]
  secOut,    \* replaceSections harness: the returned text
  cpc,       \* shouldTranslateConfig harness: "idle", "input", "done"
  cfgIn,     \* shouldTranslateConfig harness: [source, target]
  cfgOut,    \* shouldTranslateConfig harness: the returned boolean
  wpc,       \* translateDoc / copyDoc harness: "idle", "input", "done"
  wIn,       \* translateDoc / copyDoc harness: the call and what it reads
  wOut,      \* translateDoc / copyDoc harness: what the call did
  epc,       \* main, from its entry: "idle", "start", "selected", "loop", ...
  langs,     \* main: the codes of the configured languages, in key order
  targetLanguage,  \* main: the target language, or the empty string
  LANGUAGES, \* main: the codes of the languages to process
  place,     \* main: position in LANGUAGES of the pass in progress
  disk,      \* the documents under docsRoot, by path relative to it
  docPaths,  \* main: the document paths of the pass in progress
  made,      \* the directories main created under docsRoot
  configRead,  \* main has read docs/config.json
  written,   \* the documents main wrote under docsRoot
  passes     \* the languages whose pass was carried out, in order

runVars == <<lang, listOnly, repo, dirMade, concurrency, jobs, results>>
mainVars == <<pc, docIndex, doc, status, tasks, runVars>>
refVars == <<rpc, files, filepath, currentDepth, originFrontmatter, reads, resolved>>
secVars == <<spc, secIn, secOut>>
cfgVars == <<cpc, cfgIn, cfgOut>>
writeVars == <<wpc, wIn, wOut>>
entryVars ==
  <<epc, langs, targetLanguage, LANGUAGES, place, disk, docPaths, made,
    configRead, written, passes>>
vars == <<mainVars, refVars, secVars, cfgVars, writeVars, entryVars>>

----------------------------------------------------------------------------
(* Bounds of the model *)

\* commit times and timestamps range over 1..MaxTime
MaxTime == 3
\* number of documents in filteredPaths of one language pass
MaxDocs == 2
\* number of target languages of a run
MaxLangs == 2
\* number of items, and largest width, of a call of executeInBatches alone
MaxTasks == 3
MaxWidth == 2

Times == 1..MaxTime

----------------------------------------------------------------------------
(* Dates.  A JavaScript Date is valid (a time) or Invalid Date (NaN);      *)
(* every relational comparison with an Invalid Date is false.              *)

DateOf(t) == [valid |-> TRUE, t |-> t]
InvalidDate == [valid |-> FALSE, t |-> 0]

DateGreater(a, b) == a.valid /\ b.valid /\ a.t > b.t

----------------------------------------------------------------------------
(* The version-control oracle.  The output of `git log -1 --format=%at`    *)
(* is the empty sequence (no history) or one commit time.                  *)

GitOutputs == {<<>>} \cup {<<t>> : t \in Times}

\* getLastModifiedTimeFromGit: a Date, or the error thrown
getLastModifiedTimeFromGit(result) ==
  IF result # <<>>
    THEN [threw |-> FALSE, date |-> DateOf(result[1])]
    ELSE [threw |-> TRUE, date |-> InvalidDate]

----------------------------------------------------------------------------
(* Front matter values.                                                    *)

\* data.ref: absent, the empty string (falsy), or a path
RefValues == {"absent", "empty", "path"}
\* data['needs-translation']: absent, a boolean, or the string "true"
NeedsTranslationValues == {"absent", "true", "false", "string"}
\* data.replace: absent, or a map given by its keys
ReplaceValues == {"absent", "plainKeys", "spaceKey"}
ReplaceKeys(r) ==
  CASE r = "plainKeys" -> {"React", "useQuery"}
    [] r = "spaceKey" -> {"React", "React Query"}
    [] OTHER -> {}
\* key.includes(' ')
IncludesSpace(key) == key \in {"React Query"}
\* content of the source document: empty or not
Contents == {<<>>, <<"x">>}

\* target's data['translation-updated-at']: absent, the empty string, a
\* string that is no date, or a date
StampValues ==
  {[kind |-> k, t |-> 0] : k \in {"absent", "empty", "invalid"}}
    \cup {[kind |-> "date", t |-> t] : t \in Times}

Truthy(stamp) == stamp.kind \in {"invalid", "date"}
\* new Date(value)
NewDate(stamp) == IF stamp.kind = "date" THEN DateOf(stamp.t) ELSE InvalidDate

\* What one document of filteredPaths sees: the source file, the file its
\* ref names, the target file, and the commit times of the first two.
\* Fields the code cannot read (of files that do not exist) are fixed.
SourceSides ==
  {[srcExists |-> TRUE, srcGit |-> g, ref |-> "absent", refExists |-> FALSE,
    refGit |-> <<>>, needsTranslation |-> n, replace |-> r, content |-> c,
    ownStamp |-> [kind |-> "absent", t |-> 0]]
     : g \in GitOutputs, n \in NeedsTranslationValues, r \in ReplaceValues,
       c \in Contents}
RefSides ==
  {[ref |-> r, refExists |-> FALSE, refGit |-> <<>>] : r \in RefValues}
    \cup {[ref |-> "path", refExists |-> TRUE, refGit |-> g] : g \in GitOutputs}
TargetSides ==
  {[tgtExists |-> FALSE, stamp |-> [kind |-> "absent", t |-> 0]]}
    \cup {[tgtExists |-> TRUE, stamp |-> s] : s \in StampValues}

MakeDoc(s, r, t, copy) ==
  [srcExists |-> s.srcExists, srcGit |-> s.srcGit,
   ref |-> r.ref, refExists |-> r.refExists, refGit |-> r.refGit,
   needsTranslation |-> s.needsTranslation, replace |-> s.replace,
   content |-> s.content, ownStamp |-> s.ownStamp,
   tgtExists |-> t.tgtExists, stamp |-> t.stamp, isCopyPath |-> copy]

MissingSource ==
  [srcExists |-> FALSE, srcGit |-> <<>>, ref |-> "absent", refExists |-> FALSE,
   refGit |-> <<>>, needsTranslation |-> "absent", replace |-> "absent",
   content |-> <<>>, ownStamp |-> [kind |-> "absent", t |-> 0]]

Docs ==
  {MakeDoc(s, r, t, copy) :
     s \in SourceSides, r \in RefSides, t \in TargetSides, copy \in BOOLEAN}
    \cup {MakeDoc(MissingSource, [ref |-> "absent", refExists |-> FALSE,
                                  refGit |-> <<>>], t, copy) :
            t \in TargetSides, copy \in BOOLEAN}

NoDoc ==
  MakeDoc(MissingSource, [ref |-> "absent", refExists |-> FALSE, refGit |-> <<>>],
          [tgtExists |-> FALSE, stamp |-> [kind |-> "absent", t |-> 0]], FALSE)

----------------------------------------------------------------------------
(* shouldTranslateDoc, src/src/utils.ts 274-322 *)

shouldTranslateDocNoLiteral(fm) ==
  IF fm.ref # "path"
    THEN fm.content # <<>>
    ELSE \/ \E key \in ReplaceKeys(fm.replace) : IncludesSpace(key)
         \/ fm.content # <<>>

shouldTranslateDoc(fm) ==
  IF fm.ref # "path"
    THEN fm.content # <<>>
    ELSE IF fm.needsTranslation = "true" THEN TRUE
    ELSE IF fm.needsTranslation = "false" THEN FALSE
    ELSE IF \E key \in ReplaceKeys(fm.replace) : IncludesSpace(key) THEN TRUE
    ELSE fm.content # <<>>

----------------------------------------------------------------------------
(* getDocUpdateStatus, src/src/utils.ts 175-269 *)

Returned(update, translate, at, verdict, cmp) ==
  [outcome |-> "returned", shouldUpdate |-> update, shouldTranslate |-> translate,
   at |-> at, verdict |-> verdict, compared |-> cmp]
Threw(at) ==
  [outcome |-> "threw", shouldUpdate |-> FALSE, shouldTranslate |-> FALSE,
   at |-> at, verdict |-> "none", compared |-> InvalidDate]
NoStatus ==
  [outcome |-> "none", shouldUpdate |-> FALSE, shouldTranslate |-> FALSE,
   at |-> "none", verdict |-> "none", compared |-> InvalidDate]

Verdict(b) == IF b THEN "yes" ELSE "no"

\* lines 195-216 once the ref file is known to exist: the later of the two
sourceLastModifiedDateNoRef(srcDate, refDate) == srcDate

sourceLastModifiedDate(srcDate, refDate) ==
  IF DateGreater(refDate, srcDate) THEN refDate ELSE srcDate

\* lines 236-258: the target carries a truthy translation-updated-at
compareTimestampsGE(modified, stamp, translate, verdict) ==
  IF ~ DateGreater(NewDate(stamp), modified)
    THEN Returned(TRUE, translate, "updatedSince", verdict, modified)
    ELSE Returned(FALSE, FALSE, "upToDate", verdict, modified)

compareTimestampsKeep(modified, stamp, translate, verdict) ==
  IF DateGreater(modified, NewDate(stamp))
    THEN Returned(TRUE, translate, "updatedSince", verdict, modified)
    ELSE Returned(FALSE, translate, "upToDate", verdict, modified)

compareTimestamps(modified, stamp, translate, verdict) ==
  IF DateGreater(modified, NewDate(stamp))
    THEN Returned(TRUE, translate, "updatedSince", verdict, modified)
    ELSE Returned(FALSE, FALSE, "upToDate", verdict, modified)

\* lines 218-269: from shouldTranslateDoc to the end
targetStatusNoUpdate(d, modified) ==
  LET translate == shouldTranslateDoc(d)
      verdict == Verdict(translate)
  IN  IF ~ d.tgtExists
        THEN Returned(TRUE, translate, "targetMissing", verdict, modified)
      ELSE IF Truthy(d.stamp)
        THEN compareTimestamps(modified, d.stamp, translate, verdict)
      ELSE Returned(FALSE, FALSE, "noTimestamp", verdict, modified)

targetStatus(d, modified) ==
  LET translate == shouldTranslateDoc(d)
      verdict == Verdict(translate)
  IN  IF ~ d.tgtExists
        THEN Returned(TRUE, translate, "targetMissing", verdict, modified)
      ELSE IF Truthy(d.stamp)
        THEN compareTimestamps(modified, d.stamp, translate, verdict)
      ELSE Returned(TRUE, translate, "noTimestamp", verdict, modified)

\* lines 196-216: the ref branch
refStatusNoCheck(d, srcDate) ==
  LET refGit == getLastModifiedTimeFromGit(d.refGit)
  IN  IF refGit.threw THEN Threw("refNoHistory")
      ELSE targetStatus(d, sourceLastModifiedDate(srcDate, refGit.date))

refStatus(d, srcDate) ==
  IF ~ d.refExists
    THEN Returned(FALSE, FALSE, "refMissing", "none", InvalidDate)
    ELSE LET refGit == getLastModifiedTimeFromGit(d.refGit)
         IN  IF refGit.threw THEN Threw("refNoHistory")
             ELSE targetStatus(d, sourceLastModifiedDate(srcDate, refGit.date))

getDocUpdateStatus(d) ==
  IF ~ d.srcExists
    THEN Returned(FALSE, FALSE, "sourceMissing", "none", InvalidDate)
    ELSE LET srcGit == getLastModifiedTimeFromGit(d.srcGit)
         IN  IF srcGit.threw THEN Threw("sourceNoHistory")
             ELSE IF d.ref = "path" THEN refStatus(d, srcGit.date)
             ELSE targetStatus(d, srcGit.date)

----------------------------------------------------------------------------
(* main, src/src/main.ts 202-257: the status loop of one language pass *)

\* const concurrency = 10, line 266
Concurrency == 10

\* nothing is known of the files: a document may be found in any state
AnyRepo ==
  [known |-> FALSE, docs |-> <<>>, config |-> <<>>, translatedConfig |-> <<>>,
   included |-> TRUE, again |-> FALSE]
\* the states the document at position i of filteredPaths may be found in
DocsAt(i) == IF repo.known THEN {repo.docs[i]} ELSE Docs

\* the status loop of a pass over documents in any state
InitMain ==
  /\ pc = "status"
  /\ docIndex = 0
  /\ doc = NoDoc
  /\ status = NoStatus
  /\ tasks = <<>>
  /\ lang = 1
  /\ listOnly = FALSE
  /\ repo = AnyRepo
  /\ dirMade = TRUE
  /\ concurrency = Concurrency
  /\ jobs = <<>>
  /\ results = <<>>

IdleMain ==
  /\ pc = "idle"
  /\ docIndex = 0
  /\ doc = NoDoc
  /\ status = NoStatus
  /\ tasks = <<>>
  /\ lang = 1
  /\ listOnly = FALSE
  /\ repo = AnyRepo
  /\ dirMade = FALSE
  /\ concurrency = Concurrency
  /\ jobs = <<>>
  /\ results = <<>>

\* the loop over filteredPaths takes the next regular document and awaits
\* getDocUpdateStatus (lines 227-235); an error it throws is not caught
\* lines 227-231: the call of getDocUpdateStatus is awaited in the loop
\* with no try around it, so what it throws leaves the loop and main
afterStatusCaught(st) == "docEvaluated"

afterStatus(st) == IF st.outcome = "threw" THEN "aborted" ELSE "docEvaluated"

EvaluateDoc ==
  /\ pc = "status"
  /\ docIndex < MaxDocs
  /\ repo.known => docIndex < Len(repo.docs)
  /\ \E d \in DocsAt(docIndex + 1) :
       LET st == getDocUpdateStatus(d)
       IN  /\ doc' = d
           /\ status' = st
           /\ pc' = afterStatus(st)
  /\ UNCHANGED <<docIndex, tasks, runVars>>
  /\ UNCHANGED <<refVars, secVars, cfgVars, writeVars, entryVars>>

\* line 238: a document of the copy set is never translated
finalShouldTranslateKeep(isCopyPath, shouldTranslate) == shouldTranslate

finalShouldTranslate(isCopyPath, shouldTranslate) ==
  IF isCopyPath THEN FALSE ELSE shouldTranslate

\* the rest of the iteration (lines 237-256): the task is pushed when the
\* document needs updating, and the loop goes on to the next document
PushTask ==
  /\ pc = "docEvaluated"
  /\ tasks' = IF status.shouldUpdate
                 THEN Append(tasks,
                        [docPath |-> docIndex + 1,
                         shouldTranslate |->
                           finalShouldTranslate(doc.isCopyPath, status.shouldTranslate),
                         targetPath |-> <<lang, docIndex + 1>>,
                         isConfig |-> FALSE])
                 ELSE tasks
  /\ docIndex' = docIndex + 1
  /\ doc' = NoDoc
  /\ status' = NoStatus
  /\ pc' = "status"
  /\ UNCHANGED runVars
  /\ UNCHANGED <<refVars, secVars, cfgVars, writeVars, entryVars>>

\* the loop ends (line 257)
FinishStatus ==
  /\ pc = "status"
  /\ repo.known => docIndex = Len(repo.docs)
  /\ pc' = "evaluated"
  /\ UNCHANGED <<docIndex, doc, status, tasks, runVars>>
  /\ UNCHANGED <<refVars, secVars, cfgVars, writeVars, entryVars>>

----------------------------------------------------------------------------
(* Text.  A text is a sequence of characters.  A section marker is the    *)
(* text [//]: # 'name' with name a run of letters and digits.              *)

\* the letters and digits of the texts of the model: [a-zA-Z\d]
NameChars == {"a", "b", "x", "y", "z"}

MarkerPrefix == <<"[", "/", "/", "]", ":", " ", "#", " ", "'">>
Marker(name) == MarkerPrefix \o name \o <<"'">>

\* replaceContent, ref-docs.ts 18-30: every entry of the replace map, in
\* order, replaces all occurrences of its key (a one-character pattern) by
\* its value (a text)
RECURSIVE replaceAll(_, _, _)
replaceAll(text, key, value) ==
  IF text = <<>> THEN <<>>
  ELSE (IF Head(text) = key THEN value ELSE <<Head(text)>>)
         \o replaceAll(Tail(text), key, value)

RECURSIVE replaceEntries(_, _)
replaceEntries(text, entries) ==
  IF entries = <<>> THEN text
  ELSE replaceEntries(replaceAll(text, entries[1][1], entries[1][2]), Tail(entries))

replaceContent(text, frontmatter) == replaceEntries(text, frontmatter.data.replace)

\* sectionMarkerRegex, ref-docs.ts 45, tried at index i: the index of the
\* closing quote of the marker that starts at i, or 0 when none starts there
RECURSIVE nameEnd(_, _)
nameEnd(text, j) ==
  IF j <= Len(text) /\ text[j] \in NameChars THEN nameEnd(text, j + 1) ELSE j

markerEndAt(text, i) ==
  IF i + Len(MarkerPrefix) - 1 <= Len(text)
       /\ SubSeq(text, i, i + Len(MarkerPrefix) - 1) = MarkerPrefix
    THEN LET e == nameEnd(text, i + Len(MarkerPrefix))
         IN  IF e <= Len(text) /\ text[e] = "'" THEN e ELSE 0
    ELSE 0

\* the matches of sectionMarkerRegex from index i on, left to right
RECURSIVE markersFrom(_, _)
markersFrom(text, i) ==
  IF i > Len(text) THEN <<>>
  ELSE LET e == markerEndAt(text, i)
       IN  IF e # 0
             THEN <<[start |-> i, end |-> e,
                     name |-> SubSeq(text, i + Len(MarkerPrefix), e - 1)]>>
                    \o markersFrom(text, e + 1)
             ELSE markersFrom(text, i + 1)

\* text.matchAll(sectionRegex), ref-docs.ts 46-47: a match runs from a
\* marker to the next marker after it, the search going on behind the match
matchAll(text) ==
  LET m == markersFrom(text, 1)
  IN  [k \in 1..(Len(m) \div 2) |->
         [name |-> m[2 * k - 1].name, closing |-> m[2 * k].name,
          index |-> m[2 * k - 1].start,
          str |-> SubSeq(text, m[2 * k - 1].start, m[2 * k].end)]]

\* a Map filled by map.set(match[1], match) for each match in order: its
\* keys in insertion order, and the (last) match stored under a key
RECURSIVE mapKeys(_)
mapKeys(matches) ==
  IF matches = <<>> THEN <<>>
  ELSE LET front == SubSeq(matches, 1, Len(matches) - 1)
           last == matches[Len(matches)]
       IN  IF \E i \in 1..Len(front) : front[i].name = last.name
             THEN mapKeys(front)
             ELSE Append(mapKeys(front), last.name)

mapHas(matches, key) == \E i \in 1..Len(matches) : matches[i].name = key
mapGet(matches, key) ==
  matches[CHOOSE i \in 1..Len(matches) :
            /\ matches[i].name = key
            /\ \A j \in (i + 1)..Len(matches) : matches[j].name # key]

Reverse(seq) == [i \in 1..Len(seq) |-> seq[Len(seq) + 1 - i]]

\* String.prototype.slice(from, to) with 0-based, clamped indexes
slice(text, from, to) ==
  LET lo == IF from > Len(text) THEN Len(text) ELSE from
      hi == IF to > Len(text) THEN Len(text) ELSE to
  IN  SubSeq(text, lo + 1, hi)

\* result.replaceAll(sectionMarkerRegex, ''), ref-docs.ts 89
removeMarkersKeep(text) == text

RECURSIVE removeMarkersFrom(_, _)
removeMarkersFrom(text, i) ==
  IF i > Len(text) THEN <<>>
  ELSE LET e == markerEndAt(text, i)
       IN  IF e # 0 THEN removeMarkersFrom(text, e + 1)
           ELSE <<text[i]>> \o removeMarkersFrom(text, i + 1)

removeMarkers(text) == removeMarkersFrom(text, 1)

\* ref-docs.ts 73-86: the entries of substitutes, reversed, each spliced in
\* at the index its section has in the text as it was before any splice
RECURSIVE spliceSections(_, _, _, _)
spliceSections(result, keys, substitutes, sections) ==
  IF keys = <<>> THEN result
  ELSE LET key == Head(keys)
           value == mapGet(substitutes, key)
           spliced ==
             IF mapHas(sections, key)
               THEN LET sectionMatch == mapGet(sections, key)
                        at == sectionMatch.index - 1
                    IN  slice(result, 0, at) \o value.str
                          \o slice(result, at + Len(sectionMatch.str), Len(result))
               ELSE result
       IN  spliceSections(spliced, Tail(keys), substitutes, sections)

\* replaceSections, ref-docs.ts 41-92
replaceSections(text, frontmatter) ==
  LET substitutes == matchAll(frontmatter.content)
      sections == matchAll(text)
  IN  removeMarkers(spliceSections(text, Reverse(mapKeys(substitutes)),
                                   substitutes, sections))

----------------------------------------------------------------------------
(* Files of the reference resolver.  A file is its raw text, cut by        *)
(* gray-matter into the front matter block (head), its data (ref, replace) *)
(* and the content after it.                                               *)

\* longest chain of files the model builds
MaxChain == 5

maxDepth == 4

Paths == <<"file1", "file2", "file3", "file4", "file5", "file6", "file7", "file8">>
NoRef == "none"
GonePath == "gone"
Null == <<"null">>

NoFile == [exists |-> FALSE, malformed |-> FALSE, head |-> <<>>,
           data |-> [ref |-> NoRef, replace |-> <<>>], content |-> <<>>]
File(head, ref, replace, content) ==
  [exists |-> TRUE, malformed |-> FALSE, head |-> head,
   data |-> [ref |-> ref, replace |-> replace], content |-> content]
\* a file whose front matter gray-matter cannot parse
Malformed(content) ==
  [exists |-> TRUE, malformed |-> TRUE, head |-> <<"---">>,
   data |-> [ref |-> NoRef, replace |-> <<>>], content |-> content]

NoOrigin == NoFile

\* fs$.readFile(filepath, 'utf8')
RawText(file) == file.head \o file.content

\* what the nodes of a chain may carry
ReplaceMaps ==
  {<<>>, << <<"x", <<"y">> >> >>, << <<"y", <<"z">> >> >>,
   << <<"x", <<"y">> >>, <<"y", <<"z", "z">> >> >>}
MarkA == Marker(<<"a">>)
MarkB == Marker(<<"b">>)
OriginBodies ==
  {<<>>, MarkA \o <<"y">> \o MarkA, <<"x">> \o MarkB \o <<"z">> \o MarkB}
TerminalTexts ==
  {<<"x">>, <<"x">> \o MarkA \o <<"x">> \o MarkA \o <<"y">>,
   MarkB \o <<"y">> \o MarkB \o MarkA \o MarkA}
Heads == {<<>>, <<"---", "x", "---">>}
Endings == {"terminal", "cycle", "dangling", "malformed"}

\* file1 -> file2 -> ... -> file<n>, the last one a terminal document, a
\* ref back to file1, a ref to a file that does not exist, or unparsable;
\* nodeA and nodeB are the replace map and body of the last two
\* non-terminal files (of the first two when the chain has no terminal)
ChainFiles(n, ending, nodeA, nodeB, terminal) ==
  LET lastRef == n - (IF ending \in {"terminal", "malformed"} THEN 1 ELSE 0)
      nodeOf(i) ==
        IF i = (IF lastRef >= 2 THEN lastRef - 1 ELSE 0) THEN nodeA
        ELSE IF i = lastRef THEN nodeB
        ELSE [replace |-> <<>>, content |-> <<>>]
      refOf(i) ==
        IF i < n THEN Paths[i + 1]
        ELSE IF ending = "cycle" THEN Paths[1] ELSE GonePath
  IN  [p \in {Paths[i] : i \in 1..Len(Paths)} \cup {GonePath} |->
         LET i == IF p = GonePath THEN 0
                  ELSE CHOOSE j \in 1..Len(Paths) : Paths[j] = p
         IN  IF i = 0 \/ i > n THEN NoFile
             ELSE IF i <= lastRef
               THEN File(<<"---", "ref", "---">>, refOf(i),
                         nodeOf(i).replace, nodeOf(i).content)
             ELSE IF ending = "malformed" THEN Malformed(terminal.content)
             ELSE File(terminal.head, NoRef, <<>>, terminal.content)]

Nodes == {[replace |-> r, content |-> c] : r \in ReplaceMaps, c \in OriginBodies}
Terminals == {[head |-> h, content |-> c] : h \in Heads, c \in TerminalTexts}

FileSystems ==
  {ChainFiles(n, e, a, b, t) :
     n \in 1..MaxChain, e \in Endings, a \in Nodes, b \in Nodes, t \in Terminals}

----------------------------------------------------------------------------
(* getSourceRefContent, ref-docs.ts 94-137 *)

IdleRef ==
  /\ rpc = "idle"
  /\ files = <<>>
  /\ filepath = NoRef
  /\ currentDepth = 0
  /\ originFrontmatter = NoOrigin
  /\ reads = <<>>
  /\ resolved = Null

\* the call getSourceRefContent(file1) on some file system (lines 95-97)
InitRef ==
  /\ rpc = "loop"
  /\ files \in FileSystems
  /\ filepath = Paths[1]
  /\ currentDepth = 1
  /\ originFrontmatter = NoOrigin
  /\ reads = <<>>
  /\ resolved = Null

\* the loop condition, line 98
loopContinuesLate(depth) == maxDepth + 2 > depth
loopContinuesOnceMore(depth) == maxDepth + 1 > depth

loopContinues(depth) == maxDepth > depth

\* line 129: the front matter kept for the file read next
nextOriginFirst(file, origin) == IF origin = NoOrigin THEN file ELSE origin

nextOrigin(file, origin) == file

\* lines 119-126: the text returned for a file without ref
terminalTextSpliceFirst(text, origin) ==
  IF origin # NoOrigin
    THEN replaceContent(replaceSections(text, origin), origin)
    ELSE text

terminalText(text, origin) ==
  IF origin # NoOrigin
    THEN replaceSections(replaceContent(text, origin), origin)
    ELSE text

\* one iteration of the loop, lines 99-133, on the file read: what it
\* returns, or the next path, origin and depth
iteration(file, origin, path, depth) ==
  IF ~ file.exists
    THEN \* readFile rejects: line 110
         [returns |-> TRUE, value |-> Null, filepath |-> path,
          originFrontmatter |-> origin, currentDepth |-> depth]
  ELSE IF file.malformed
    THEN \* extractFrontMatter throws: line 131
         [returns |-> TRUE, value |-> RawText(file), filepath |-> path,
          originFrontmatter |-> origin, currentDepth |-> depth]
  ELSE IF file.data.ref = NoRef
    THEN \* lines 119-126
         [returns |-> TRUE, value |-> terminalText(RawText(file), origin),
          filepath |-> path, originFrontmatter |-> origin, currentDepth |-> depth]
  ELSE \* lines 128-133
       [returns |-> FALSE, value |-> Null, filepath |-> file.data.ref,
        originFrontmatter |-> nextOrigin(file, origin),
        currentDepth |-> depth + 1]

\* the loop body is entered: the condition of line 98 holds
CanReadFile ==
  /\ rpc = "loop"
  /\ loopContinues(currentDepth)
  /\ filepath \in DOMAIN files

ReadFile ==
  /\ CanReadFile
  /\ LET step == iteration(files[filepath], originFrontmatter, filepath, currentDepth)
     IN  /\ rpc' = IF step.returns THEN "done" ELSE "loop"
         /\ resolved' = step.value
         /\ filepath' = step.filepath
         /\ originFrontmatter' = step.originFrontmatter
         /\ currentDepth' = step.currentDepth
  /\ reads' = Append(reads, filepath)
  /\ UNCHANGED files
  /\ UNCHANGED <<mainVars, secVars, cfgVars, writeVars, entryVars>>

\* the loop condition fails: line 136
DepthExceeded ==
  /\ rpc = "loop"
  /\ ~ loopContinues(currentDepth)
  /\ resolved' = Null
  /\ rpc' = "done"
  /\ UNCHANGED <<files, filepath, currentDepth, originFrontmatter, reads>>
  /\ UNCHANGED <<mainVars, secVars, cfgVars, writeVars, entryVars>>

NextRef == ReadFile \/ DepthExceeded

----------------------------------------------------------------------------
(* replaceSections applied to a text and an origin body *)

\* number of segments a text of the harness is made of
MaxSegments == 2

Segments ==
  {<<"x">>, MarkA \o <<"x">> \o MarkA, MarkA \o <<"y", "y">> \o MarkA,
   MarkB \o <<"y">> \o MarkB, MarkB \o MarkB, MarkA}

RECURSIVE TextsOf(_)
TextsOf(n) ==
  IF n = 0 THEN {<<>>}
  ELSE LET shorter == TextsOf(n - 1)
       IN  shorter \cup {t \o seg : t \in shorter, seg \in Segments}

IdleSec ==
  /\ spc = "idle"
  /\ secIn = [text |-> <<>>, origin |-> <<>>]
  /\ secOut = <<>>

InitSec ==
  /\ spc = "input"
  /\ secIn \in {[text |-> t, origin |-> o] :
                  t \in TextsOf(MaxSegments), o \in TextsOf(MaxSegments)}
  /\ secOut = <<>>

ApplyReplaceSections ==
  /\ spc = "input"
  /\ secOut' = replaceSections(secIn.text, File(<<>>, Paths[1], <<>>, secIn.origin))
  /\ spc' = "done"
  /\ UNCHANGED secIn
  /\ UNCHANGED <<mainVars, refVars, cfgVars, writeVars, entryVars>>

----------------------------------------------------------------------------
(* Configuration files.  A configuration is a JSON value: a primitive, an  *)
(* array, or an object whose fields keep their order.  The items of an     *)
(* array carry the empty key.                                              *)

\* depth to which the configurations of the harness nest
MaxNesting == 1

Prim(v) == [t |-> "prim", v |-> v, items |-> <<>>]
Arr(values) == [t |-> "arr", v |-> "",
                items |-> [k \in DOMAIN values |-> <<"", values[k]>>]]
Obj(fields) == [t |-> "obj", v |-> "", items |-> fields]

\* getTranslatedConfig, src/src/utils.ts 32-44: what a missing or unreadable
\* translated configuration is replaced by
EmptyConfig == Obj(<<>>)

\* a variant that deletes the to field as well
withoutLabelOrTo(fields) ==
  SelectSeq(fields, LAMBDA f : f[1] \notin {"label", "to"})

\* delete obj.label, src/src/utils.ts 87: the fields of an object but label
withoutLabel(fields) ==
  LET F[i \in 0..Len(fields)] ==
        IF i = 0 THEN <<>>
        ELSE IF fields[i][1] # "label" THEN Append(F[i - 1], fields[i])
        ELSE F[i - 1]
  IN  F[Len(fields)]

\* a variant of stripLabels that removes the label of the outermost object only
stripLabelsShallow(obj) ==
  IF obj.t = "obj" THEN Obj(withoutLabel(obj.items)) ELSE obj

\* stripLabels, src/src/utils.ts 78-96, as the value it leaves in place
RECURSIVE stripLabels(_)
stripLabels(obj) ==
  CASE obj.t = "prim" -> obj
    [] obj.t = "arr" ->
         [obj EXCEPT !.items =
            [k \in DOMAIN obj.items |-> <<"", stripLabels(obj.items[k][2])>>]]
    [] obj.t = "obj" ->
         LET kept == withoutLabel(obj.items)
         IN  Obj([k \in DOMAIN kept |-> <<kept[k][1], stripLabels(kept[k][2])>>])

\* JSON.stringify, as the sequence of tokens of the text it produces
RECURSIVE stringify(_)
stringify(value) ==
  LET Member(f) ==
        IF value.t = "obj" THEN <<"\"", f[1], "\"", ":">> \o stringify(f[2])
        ELSE stringify(f[2])
      Joined[i \in 0..Len(value.items)] ==
        IF i = 0 THEN <<>>
        ELSE IF i = 1 THEN Member(value.items[1])
        ELSE Joined[i - 1] \o <<",">> \o Member(value.items[i])
  IN  CASE value.t = "prim" -> <<"\"", value.v, "\"">>
        [] value.t = "arr" -> <<"[">> \o Joined[Len(value.items)] \o <<"]">>
        [] value.t = "obj" -> <<"{">> \o Joined[Len(value.items)] \o <<"}">>

\* the MD5 digest of a text; two different texts of the model never collide
md5(text) == <<"md5">> \o text

\* shouldTranslateConfig, src/src/utils.ts 47-75
shouldTranslateConfig(docsConfig, translatedConfig) ==
  LET sourceCopy == stripLabels(docsConfig)
      targetCopy == stripLabels(translatedConfig)
      sourceHash == md5(stringify(sourceCopy))
      targetHash == md5(stringify(targetCopy))
  IN  sourceHash # targetHash

Labels == {"L1", "L2"}
Links == {<<>>, <<<<"to", Prim("/a")>>>>}

\* pairs of the label field of a source and of a translated object
LabelPairs ==
  {<<<<>>, <<>>>>} \cup
  {<<<<<<"label", Prim(l1)>>>>, <<<<"label", Prim(l2)>>>>>> : l1, l2 \in Labels}

\* pairs of configurations of the same structure, nesting to depth d
\* through arrays ("children") and through objects ("meta")
RECURSIVE StructurePairs(_)
StructurePairs(d) ==
  LET inner == StructurePairs(d - 1)
      ChildPairs ==
        IF d = 0 THEN {<<<<>>, <<>>>>}
        ELSE {<<<<>>, <<>>>>}
             \cup {<<<<<<"children", Arr(<<p[1]>>)>>>>,
                     <<<<"children", Arr(<<p[2]>>)>>>>>> : p \in inner}
             \cup {<<<<<<"meta", p[1]>>>>, <<<<"meta", p[2]>>>>>> : p \in inner}
  IN  {<<Obj(to \o lp[1] \o cp[1]), Obj(to \o lp[2] \o cp[2])>> :
         to \in Links, lp \in LabelPairs, cp \in ChildPairs}

\* two configurations are identical except for the values of label fields
RECURSIVE SameExceptLabels(_, _)
SameExceptLabels(a, b) ==
  /\ a.t = b.t
  /\ a.v = b.v
  /\ Len(a.items) = Len(b.items)
  /\ \A k \in DOMAIN a.items :
       /\ a.items[k][1] = b.items[k][1]
       /\ \/ a.t = "obj" /\ a.items[k][1] = "label"
          \/ SameExceptLabels(a.items[k][2], b.items[k][2])

\* two configurations are identical when their label fields are disregarded
RECURSIVE SameButLabelFields(_, _)
SameButLabelFields(a, b) ==
  LET NonLabel(f) == f[1] # "label"
      fa == IF a.t = "obj" THEN SelectSeq(a.items, NonLabel) ELSE a.items
      fb == IF b.t = "obj" THEN SelectSeq(b.items, NonLabel) ELSE b.items
  IN  /\ a.t = b.t
      /\ a.v = b.v
      /\ Len(fa) = Len(fb)
      /\ \A k \in DOMAIN fa :
           fa[k][1] = fb[k][1] /\ SameButLabelFields(fa[k][2], fb[k][2])

\* One change made to a configuration, by kind:
\*   "addField", "removeField"   a non-label field of an object
\*   "addNode", "removeNode"     a node of an array
\*   "to"                        the path of a to field
\*   "reorderFields"             two neighbouring non-label fields change places
\*   "reorderLabel"              a non-label field changes places with a label field
\*   "reorderNodes"              two neighbouring nodes of an array that differ in
\*                               more than label fields change places
\*   "reorderTwins"              two neighbouring nodes that differ in label
\*                               fields only change places
EditKinds == {"addField", "removeField", "addNode", "removeNode", "to",
              "reorderFields", "reorderLabel", "reorderNodes", "reorderTwins"}

InsertAt(seq, i, x) == SubSeq(seq, 1, i - 1) \o <<x>> \o SubSeq(seq, i, Len(seq))
RemoveAt(seq, i) == SubSeq(seq, 1, i - 1) \o SubSeq(seq, i + 1, Len(seq))
SwapAt(seq, i) == [seq EXCEPT ![i] = seq[i + 1], ![i + 1] = seq[i]]

AddedField == <<"extra", Prim("e")>>
AddedNodes == {Obj(<<<<"label", Prim("L2")>>>>), Obj(<<<<"to", Prim("/b")>>>>)}

ObjectEdits(obj, kinds) ==
  LET f == obj.items
      isLabel(i) == f[i][1] = "label"
  IN  (IF "addField" \in kinds /\ \A i \in DOMAIN f : f[i][1] # AddedField[1]
         THEN {Obj(InsertAt(f, i, AddedField)) : i \in 1..(Len(f) + 1)} ELSE {})
      \cup (IF "removeField" \in kinds
              THEN {Obj(RemoveAt(f, i)) : i \in {k \in DOMAIN f : ~ isLabel(k)}}
              ELSE {})
      \cup (IF "to" \in kinds
              THEN {Obj([f EXCEPT ![i] = <<"to", Prim("/b")>>]) :
                      i \in {k \in DOMAIN f : f[k][1] = "to" /\ f[k][2] # Prim("/b")}}
              ELSE {})
      \cup (IF "reorderFields" \in kinds
              THEN {Obj(SwapAt(f, i)) :
                      i \in {k \in 1..(Len(f) - 1) : ~ isLabel(k) /\ ~ isLabel(k + 1)}}
              ELSE {})
      \cup (IF "reorderLabel" \in kinds
              THEN {Obj(SwapAt(f, i)) :
                      i \in {k \in 1..(Len(f) - 1) : isLabel(k) # isLabel(k + 1)}}
              ELSE {})

ArrayEdits(arr, kinds) ==
  LET f == arr.items
      twins(i) == SameButLabelFields(f[i][2], f[i + 1][2])
  IN  (IF "addNode" \in kinds
         THEN {[arr EXCEPT !.items = InsertAt(f, i, <<"", n>>)] :
                 i \in 1..(Len(f) + 1), n \in AddedNodes}
         ELSE {})
      \cup (IF "removeNode" \in kinds
              THEN {[arr EXCEPT !.items = RemoveAt(f, i)] : i \in DOMAIN f}
              ELSE {})
      \cup (IF "reorderNodes" \in kinds
              THEN {[arr EXCEPT !.items = SwapAt(f, i)] :
                      i \in {k \in 1..(Len(f) - 1) : ~ twins(k)}}
              ELSE {})
      \cup (IF "reorderTwins" \in kinds
              THEN {[arr EXCEPT !.items = SwapAt(f, i)] :
                      i \in {k \in 1..(Len(f) - 1) : twins(k) /\ f[k] # f[k + 1]}}
              ELSE {})

\* the configurations one change of one of the kinds away from a value, the
\* change made to the value itself or anywhere beneath it
RECURSIVE Edits(_, _)
Edits(value, kinds) ==
  (CASE value.t = "obj" -> ObjectEdits(value, kinds)
     [] value.t = "arr" -> ArrayEdits(value, kinds)
     [] OTHER -> {})
  \cup UNION {{[value EXCEPT !.items[k] = <<value.items[k][1], e>>] :
                 e \in Edits(value.items[k][2], kinds)} :
              k \in {i \in DOMAIN value.items :
                       ~ (value.t = "obj" /\ value.items[i][1] = "label")}}

\* configurations (their labels all L1) with arrays of up to two nodes, and
\* the changes made to them
EditedPairs(d) ==
  LET text(c) == stringify(c)
      plain == {c \in {p[1] : p \in StructurePairs(d)} :
                  \A k \in DOMAIN text(c) : text(c)[k] # "L2"}
      grown == UNION {Edits(c, {"addNode"}) : c \in plain}
      ofNodes == {"removeNode", "reorderNodes", "reorderTwins"}
  IN  UNION {{<<c, e>> : e \in Edits(c, EditKinds)} : c \in plain}
      \cup UNION {{<<e, c>> : e \in Edits(c, EditKinds)} : c \in plain}
      \cup UNION {{<<c, e>> : e \in Edits(c, ofNodes)} : c \in grown}

ConfigPairs(d) ==
  LET same == StructurePairs(d)
  IN  same
      \cup {<<p[1], EmptyConfig>> : p \in same}
      \cup {<<p[1], Obj(<<<<"to", Prim("/b")>>>> \o p[2].items)>> : p \in same}
      \cup EditedPairs(d)

\* the characters of the to values of the model
chars(str) ==
  CASE str = "" -> <<>>
    [] str = "/a" -> <<"/", "a">>
    [] str = "/b" -> <<"/", "b">>
    [] str = "/examples" -> <<"/", "e", "x", "a", "m", "p", "l", "e", "s">>
    [] str = "/examples/e" ->
         <<"/", "e", "x", "a", "m", "p", "l", "e", "s", "/", "e">>
    [] str = "/a/examples/e" ->
         <<"/", "a", "/", "e", "x", "a", "m", "p", "l", "e", "s", "/", "e">>

\* the text '/examples/' of line 107
ExamplesPart == <<"/", "e", "x", "a", "m", "p", "l", "e", "s", "/">>

\* String.prototype.includes
includes(text, pattern) ==
  \E i \in 1..(Len(text) - Len(pattern) + 1) :
     SubSeq(text, i, i + Len(pattern) - 1) = pattern

\* obj.to: the fields of an object named to (none, or one)
toOf(obj) ==
  IF obj.t = "obj" THEN SelectSeq(obj.items, LAMBDA f : f[1] = "to") ELSE <<>>

\* extractDocPaths, src/src/utils.ts 99-125.  A variant of traverse that does
\* not look beneath a node whose to is excluded:
RECURSIVE traversePruned(_)
traversePruned(obj) ==
  IF obj.t = "prim" THEN <<>>
  ELSE LET to == toOf(obj)
           excluded == to # <<>> /\ includes(chars(to[1][2].v), ExamplesPart)
           Below[i \in 0..Len(obj.items)] ==
             IF i = 0 THEN <<>> ELSE Below[i - 1] \o traversePruned(obj.items[i][2])
       IN  IF excluded THEN <<>>
           ELSE (IF to # <<>> /\ to[1][2].v # "" THEN <<to[1][2].v>> ELSE <<>>)
                  \o Below[Len(obj.items)]

\* traverse, lines 102-121: the paths pushed for obj and everything beneath it
RECURSIVE traverse(_)
traverse(obj) ==
  IF obj.t = "prim" THEN <<>>
  ELSE LET to == toOf(obj)
           pushed ==
             IF to # <<>> /\ to[1][2].v # ""
                  /\ ~ includes(chars(to[1][2].v), ExamplesPart)
               THEN <<to[1][2].v>> ELSE <<>>
           Below[i \in 0..Len(obj.items)] ==
             IF i = 0 THEN <<>> ELSE Below[i - 1] \o traverse(obj.items[i][2])
       IN  pushed \o Below[Len(obj.items)]

extractDocPaths(config) == traverse(config)

\* the trees extractDocPaths is applied to: nodes with or without to and
\* label, with children (one node, or a node and a leaf) or a nested object
ToValues == {"", "/a", "/b", "/examples", "/examples/e", "/a/examples/e"}
ToFields == {<<>>} \cup {<<<<"to", Prim(p)>>>> : p \in ToValues}
Leaves == {Obj(<<<<"to", Prim("/b")>>>>),
           Obj(<<<<"to", Prim("/a/examples/e")>>, <<"label", Prim("L1")>>>>)}

RECURSIVE Trees(_)
Trees(d) ==
  LET inner == Trees(d - 1)
      Beneath ==
        IF d = 0 THEN {<<>>}
        ELSE {<<>>}
             \cup {<<<<"children", Arr(<<n>>)>>>> : n \in inner}
             \cup {<<<<"children", Arr(<<n, l>>)>>>> : n \in inner, l \in Leaves}
             \cup {<<<<"meta", n>>>> : n \in inner}
  IN  {Obj(to \o b) : to \in ToFields, b \in Beneath}

NoConfig == [source |-> EmptyConfig, target |-> EmptyConfig]

IdleCfg ==
  /\ cpc = "idle"
  /\ cfgIn = NoConfig
  /\ cfgOut = FALSE

InitCfg ==
  /\ cpc = "input"
  /\ cfgIn \in {[source |-> p[1], target |-> p[2]] : p \in ConfigPairs(MaxNesting)}
  /\ cfgOut = FALSE

\* a call of extractDocPaths
InitPaths ==
  /\ cpc = "paths"
  /\ cfgIn \in {[source |-> c, target |-> EmptyConfig] : c \in Trees(MaxNesting)}
  /\ cfgOut = <<>>

ExtractDocPaths ==
  /\ cpc = "paths"
  /\ cfgOut' = extractDocPaths(cfgIn.source)
  /\ cpc' = "done"
  /\ UNCHANGED cfgIn
  /\ UNCHANGED <<mainVars, refVars, secVars, writeVars, entryVars>>

\* main, src/src/main.ts 117-123: the configuration check of one language
CheckConfig ==
  /\ cpc = "input"
  /\ cfgOut' = shouldTranslateConfig(cfgIn.source, cfgIn.target)
  /\ cpc' = "done"
  /\ UNCHANGED cfgIn
  /\ UNCHANGED <<mainVars, refVars, secVars, writeVars, entryVars>>

----------------------------------------------------------------------------
(* Writing target documents: copyDoc and translateDoc, src/src/utils.ts    *)
(* 362-471.  A markdown text is its front matter (a list of key-value      *)
(* pairs in file order) and its body; a string is a sequence of characters.*)

Str(s) == [kind |-> "string", s |-> s, t |-> 0]
\* Date.prototype.toISOString(): the ISO-8601 string of the instant t
Iso(t) == [kind |-> "iso", s |-> <<>>, t |-> t]
Undefined == [kind |-> "undefined", s |-> <<>>, t |-> 0]
toISOString(date) == Iso(date.t)
isTruthy(value) ==
  value.kind = "iso" \/ (value.kind = "string" /\ value.s # <<>>)

Text(front, body) == [front |-> front, body |-> body]
NoText == Text(<<>>, <<>>)
\* gray-matter: parsing a text, and writing content and data as a text
matter(text) == [data |-> text.front, content |-> text.body]
matterStringify(content, data) == Text(data, content)

hasKey(data, key) == \E i \in DOMAIN data : data[i][1] = key
get(data, key) ==
  IF hasKey(data, key)
    THEN data[CHOOSE i \in DOMAIN data : data[i][1] = key][2]
    ELSE Undefined
\* obj[key] = value: an own key keeps its place, a new key goes last
setKey(data, key, value) ==
  IF hasKey(data, key)
    THEN [i \in DOMAIN data |->
            IF data[i][1] = key THEN <<key, value>> ELSE data[i]]
    ELSE Append(data, <<key, value>>)
\* { ...base, ...extra }
RECURSIVE spread(_, _)
spread(base, extra) ==
  IF extra = <<>> THEN base
  ELSE spread(setKey(base, extra[1][1], extra[1][2]), Tail(extra))

\* String.prototype.substring(from)
substring(str, from) == SubSeq(str, from + 1, Len(str))

Wrote(text) == [outcome |-> "wrote", file |-> text]
ReturnedEarly == [outcome |-> "returned", file |-> NoText]
Thrown == [outcome |-> "threw", file |-> NoText]

\* the time stamps at the head of the data object, lines 379-381 and 463-464
timestamps(sourceUpdatedAt, translationUpdatedAt) ==
  <<<<"source-updated-at", sourceUpdatedAt>>,
    <<"translation-updated-at", translationUpdatedAt>>>>

\* copyDoc, lines 362-409.  source is the file at sourcePath and the output
\* of git for it; now is the clock; writeFails: the file system rejects
copyDoc(source, docsRoot, translatedRoot, now, writeFails) ==
  IF ~ source.exists THEN Thrown
  ELSE LET parsed == matter(source.text)
           git == getLastModifiedTimeFromGit(source.git)
       IN  IF git.threw THEN Thrown
           ELSE LET newData ==
                      spread(timestamps(toISOString(git.date),
                                        toISOString(DateOf(now))),
                             parsed.data)
                    currentRef == get(parsed.data, "ref")
                    relativePath == substring(currentRef.s, Len(docsRoot) + 1)
                    newRef == Str(translatedRoot \o <<"/">> \o relativePath)
                    adjusted == IF isTruthy(currentRef)
                                  THEN setKey(newData, "ref", newRef)
                                  ELSE newData
                IN  IF writeFails THEN Thrown
                    ELSE Wrote(matterStringify(parsed.content, adjusted))

\* $translateDocument: the translation of a body
translated(content) == <<"t", "r", ":">> \o content

\* translateDoc, lines 419-471.  refContent is what getSourceRefContent
\* returns for sourcePath (null, or a text); title is undefined or a label;
\* env says what the collaborators do: the translation service and the file
\* system may reject, and gray-matter either rejects an undefined value or
\* leaves its key out
translateDoc(source, title, refContent, now, env) ==
  IF ~ source.exists THEN Thrown
  ELSE LET own == matter(source.text)
           viaRef == isTruthy(get(own.data, "ref"))
           fetched == ~ refContent.null /\ refContent.text # NoText
           parsed == IF viaRef THEN matter(refContent.text) ELSE own
           git == getLastModifiedTimeFromGit(source.git)
           data == setKey(spread(timestamps(toISOString(git.date),
                                            toISOString(DateOf(now))),
                                 parsed.data),
                          "title", title)
           defined == SelectSeq(data, LAMBDA f : f[2] # Undefined)
       IN  IF viaRef /\ ~ fetched THEN ReturnedEarly
           ELSE IF env.translateFails THEN Thrown
           ELSE IF git.threw THEN Thrown
           ELSE IF defined # data /\ env.undefinedThrows THEN Thrown
           ELSE IF env.writeFails THEN Thrown
           ELSE Wrote(matterStringify(translated(parsed.content), defined))

\* what the calls of the harness read
DocsRoot == <<"d", "o", "c", "s">>
LangRoot == DocsRoot \o <<"/", "f", "r">>
RefPaths == {<<>>, DocsRoot \o <<"/", "r">>, <<"l", "i", "b", "/", "r">>}
OptionalField(key, values) == {<<>>} \cup {<<<<key, v>>>> : v \in values}
FrontMatters ==
  {title \o id \o stamp : title \in OptionalField("title", {Str(<<"T">>)}),
                          id \in OptionalField("id", {Str(<<"i">>)}),
                          stamp \in {<<>>,
                                     <<<<"translation-updated-at", Iso(0)>>>>,
                                     <<<<"source-updated-at", Iso(0)>>>>}}
  \cup {<<<<"ref", Str(r)>>>> \o id : r \in RefPaths,
                                      id \in OptionalField("id", {Str(<<"i">>)})}
SourceFiles ==
  {[exists |-> TRUE, git |-> g, text |-> Text(f, b)] :
     g \in GitOutputs, f \in FrontMatters, b \in Contents}
RefContents ==
  {[null |-> TRUE, text |-> NoText], [null |-> FALSE, text |-> NoText],
   [null |-> FALSE, text |-> Text(<<<<"title", Str(<<"R">>)>>>>, <<"r">>)]}
Titles == {Undefined, Str(<<"L">>)}
Environments ==
  {[translateFails |-> a, undefinedThrows |-> b, writeFails |-> c] :
     a \in BOOLEAN, b \in BOOLEAN, c \in BOOLEAN}
NoEnvironment ==
  [translateFails |-> FALSE, undefinedThrows |-> FALSE, writeFails |-> FALSE]

\* the calls: a copy of any source, a translation of a document without ref
\* in any environment, a translation of a reference document
Calls ==
  {[op |-> "copyDoc", source |-> s, title |-> Undefined,
    refContent |-> [null |-> TRUE, text |-> NoText], refGit |-> g, now |-> n,
    env |-> [NoEnvironment EXCEPT !.writeFails = w]] :
     s \in SourceFiles, g \in Times, n \in Times, w \in BOOLEAN}
  \cup
  {[op |-> "translateDoc", source |-> s, title |-> t,
    refContent |-> [null |-> TRUE, text |-> NoText], refGit |-> 1, now |-> n,
    env |-> e] :
     s \in {f \in SourceFiles : ~ hasKey(f.text.front, "ref")},
     t \in Titles, n \in Times, e \in Environments}
  \cup
  {[op |-> "translateDoc", source |-> s, title |-> t, refContent |-> r,
    refGit |-> g, now |-> n, env |-> NoEnvironment] :
     s \in {f \in SourceFiles : hasKey(f.text.front, "ref")},
     t \in Titles, r \in RefContents, g \in Times, n \in Times}

NoCall ==
  [op |-> "none", source |-> [exists |-> FALSE, git |-> <<>>, text |-> NoText],
   title |-> Undefined, refContent |-> [null |-> TRUE, text |-> NoText],
   refGit |-> 1, now |-> 1, env |-> NoEnvironment]

IdleWrite ==
  /\ wpc = "idle"
  /\ wIn = NoCall
  /\ wOut = ReturnedEarly

InitWrite ==
  /\ wpc = "input"
  /\ wIn \in Calls
  /\ wOut = ReturnedEarly

CopyDoc ==
  /\ wpc = "input"
  /\ wIn.op = "copyDoc"
  /\ wOut' = copyDoc(wIn.source, DocsRoot, LangRoot, wIn.now, wIn.env.writeFails)
  /\ wpc' = "done"
  /\ UNCHANGED wIn
  /\ UNCHANGED <<mainVars, refVars, secVars, cfgVars, entryVars>>

TranslateDoc ==
  /\ wpc = "input"
  /\ wIn.op = "translateDoc"
  /\ wOut' = translateDoc(wIn.source, wIn.title, wIn.refContent, wIn.now, wIn.env)
  /\ wpc' = "done"
  /\ UNCHANGED wIn
  /\ UNCHANGED <<mainVars, refVars, secVars, cfgVars, entryVars>>

----------------------------------------------------------------------------
(* main, src/src/main.ts 19-334: the passes over the languages, and        *)
(* executeInBatches of batch.ts as spec.md and the tests of batch.ts        *)
(* describe it                                                              *)

\* the documents of the runs that are followed from end to end: a new
\* document in the copy set and one outside it, an up-to-date one, a
\* reference document that is translated, one of the copy set, a source
\* whose own front matter holds a translation-updated-at (of a time before
\* every commit), a source that has no history, and a reference document
\* whose ref names a file that has none
SampleDocs ==
  LET plainSource ==
        [srcExists |-> TRUE, srcGit |-> <<1>>, ref |-> "absent",
         refExists |-> FALSE, refGit |-> <<>>, needsTranslation |-> "absent",
         replace |-> "absent", content |-> <<"x">>,
         ownStamp |-> [kind |-> "absent", t |-> 0]]
      withoutRef == [ref |-> "absent", refExists |-> FALSE, refGit |-> <<>>]
      withRef == [ref |-> "path", refExists |-> TRUE, refGit |-> <<1>>]
      noTarget == [tgtExists |-> FALSE, stamp |-> [kind |-> "absent", t |-> 0]]
      freshTarget == [tgtExists |-> TRUE, stamp |-> [kind |-> "date", t |-> 1]]
  IN  <<MakeDoc(plainSource, withoutRef, noTarget, TRUE),
        MakeDoc(plainSource, withoutRef, noTarget, FALSE),
        MakeDoc(plainSource, withoutRef, freshTarget, FALSE),
        MakeDoc([plainSource EXCEPT !.content = <<>>], withRef, noTarget,
                FALSE),
        MakeDoc([plainSource EXCEPT !.needsTranslation = "true"], withRef,
                noTarget, TRUE),
        MakeDoc([plainSource EXCEPT !.ownStamp = [kind |-> "date", t |-> 0]],
                withoutRef, noTarget, FALSE),
        MakeDoc([plainSource EXCEPT !.srcGit = <<>>], withoutRef, noTarget,
                FALSE),
        MakeDoc([plainSource EXCEPT !.content = <<>>],
                [withRef EXCEPT !.refGit = <<>>], noTarget, FALSE)>>

\* the lists of documents a run may find: up to MaxDocs of the samples, in
\* the order above
DocLists ==
  UNION {{[i \in 1..n |-> SampleDocs[at[i]]] :
            at \in {f \in [1..n -> DOMAIN SampleDocs] :
                      \A i, j \in 1..n : i < j => f[i] < f[j]}} :
         n \in 0..MaxDocs}

\* the configuration of the documentation, and what getTranslatedConfig may
\* return for a language: a translation of it, or {} when there is no file
SampleConfig == Obj(<<<<"label", Prim("L1")>>, <<"to", Prim("/a")>>>>)
TranslatedConfigs == {SampleConfig, EmptyConfig}

\* a repository: the documents of filteredPaths, the configuration, its
\* translation of each language, whether the include pattern of lines
\* 171-178 lets the path config.json through, and whether main has been
\* run on it again
Repos ==
  {[known |-> TRUE, docs |-> ds, config |-> <<SampleConfig>>,
    translatedConfig |-> tc, included |-> inc, again |-> FALSE] :
     ds \in DocLists,
     tc \in [1..MaxLangs -> TranslatedConfigs],
     inc \in BOOLEAN}

\* path.join(docsRoot, lang.toLowerCase()) of the l-th language
translatedRootOf(l) ==
  LET codes == <<<<"f", "r">>, <<"e", "s">>, <<"d", "e">>, <<"i", "t">>>>
  IN  DocsRoot \o <<"/">> \o codes[l]

\* the task of the configuration, lines 214-220; its docPath is 0
ConfigTask(l) ==
  [docPath |-> 0, shouldTranslate |-> TRUE, targetPath |-> <<l, 0>>,
   isConfig |-> TRUE]

InitPipeline ==
  /\ pc = "language"
  /\ docIndex = 0
  /\ doc = NoDoc
  /\ status = NoStatus
  /\ tasks = <<>>
  /\ lang = 1
  /\ listOnly \in BOOLEAN
  /\ repo \in Repos
  /\ dirMade = FALSE
  /\ concurrency = Concurrency
  /\ jobs = <<>>
  /\ results = <<>>

Settled(job) == job.state \in {"done", "failed"}

\* lines 105-115: the pass of a language starts by creating its directory
MakeDirectory ==
  /\ pc = "language"
  /\ dirMade' = TRUE
  /\ pc' = "config"
  /\ UNCHANGED <<docIndex, doc, status, tasks, lang, listOnly, repo,
                 concurrency, jobs, results>>
  /\ UNCHANGED <<refVars, secVars, cfgVars, writeVars, entryVars>>

\* lines 117-225: the configuration is compared, the documents are found
\* and filtered, a new task list is created and the configuration is its
\* first task if it is included and needs translation.  The processors of
\* the pass before, once settled, are of no concern any more.
ConfigStatus ==
  /\ pc = "config"
  /\ LET configNeedsTranslation ==
           shouldTranslateConfig(repo.config[1], repo.translatedConfig[lang])
     IN  tasks' = IF repo.included /\ configNeedsTranslation
                    THEN <<ConfigTask(lang)>>
                    ELSE <<>>
  /\ jobs' = SelectSeq(jobs, LAMBDA job : ~ Settled(job))
  /\ pc' = "status"
  /\ UNCHANGED <<docIndex, doc, status, lang, listOnly, repo, dirMade,
                 concurrency, results>>
  /\ UNCHANGED <<refVars, secVars, cfgVars, writeVars, entryVars>>

\* the handler of lines 268-327 picks one of three for a task
handlerTranslateOnly(task) ==
  IF task.isConfig THEN "translateConfig"
  ELSE IF task.shouldTranslate THEN "translateDoc"
  ELSE "none"

handlerOf(task) ==
  IF task.isConfig THEN "translateConfig"
  ELSE IF task.shouldTranslate THEN "translateDoc"
  ELSE "copyDoc"

\* the processor of an item before it is started
NewJob(task) ==
  [task |-> task, state |-> "pending", invoked |-> <<>>, wrote |-> FALSE,
   body |-> <<>>, stamp |-> [kind |-> "absent", t |-> 0]]

\* line 267: nothing is executed in list-only mode
skipsExecutionNever(flag) == FALSE

skipsExecution(flag) == flag

\* lines 265-268: the tasks are handed to executeInBatches
Dispatch ==
  /\ pc = "evaluated"
  /\ IF skipsExecution(listOnly)
       THEN /\ pc' = "dispatched"
            /\ UNCHANGED jobs
       ELSE /\ pc' = "dispatch"
            /\ jobs' = SelectSeq(jobs, LAMBDA job : ~ Settled(job))
                         \o [i \in DOMAIN tasks |-> NewJob(tasks[i])]
  /\ results' = <<>>
  /\ UNCHANGED <<docIndex, doc, status, tasks, lang, listOnly, repo, dirMade,
                 concurrency>>
  /\ UNCHANGED <<refVars, secVars, cfgVars, writeVars, entryVars>>

\* the items of the next batch: the first `width` that were not started
nextBatchAll(js, width) == {i \in DOMAIN js : js[i].state = "pending"}

nextBatch(js, width) ==
  {i \in DOMAIN js :
     /\ js[i].state = "pending"
     /\ Cardinality({k \in 1..i : js[k].state = "pending"}) <= width}

\* executeInBatches starts the processors of a batch together, once the
\* batch before has settled
StartBatch ==
  /\ pc = "dispatch"
  /\ \A i \in DOMAIN jobs : jobs[i].state # "running"
  /\ \E i \in DOMAIN jobs : jobs[i].state = "pending"
  /\ jobs' = [i \in DOMAIN jobs |->
                IF i \in nextBatch(jobs, concurrency)
                  THEN [jobs[i] EXCEPT !.state = "running",
                                       !.invoked = Append(@, handlerOf(jobs[i].task))]
                  ELSE jobs[i]]
  /\ UNCHANGED <<pc, docIndex, doc, status, tasks, lang, listOnly, repo,
                 dirMade, concurrency, results>>
  /\ UNCHANGED <<refVars, secVars, cfgVars, writeVars, entryVars>>

\* the file at sourcePath of a document, as copyDoc and translateDoc read it
frontOf(d) ==
  (IF d.ref = "path" THEN <<<<"ref", Str(DocsRoot \o <<"/", "r">>)>>>>
   ELSE IF d.ref = "empty" THEN <<<<"ref", Str(<<>>)>>>>
   ELSE <<>>)
   \o (IF d.needsTranslation = "absent" THEN <<>>
       ELSE <<<<"needs-translation", Str(<<d.needsTranslation>>)>>>>)
   \o (IF d.ownStamp.kind = "date"
         THEN <<<<"translation-updated-at", Iso(d.ownStamp.t)>>>>
         ELSE <<>>)
sourceFileOf(d) ==
  [exists |-> d.srcExists, git |-> d.srcGit, text |-> Text(frontOf(d), d.content)]
\* what getSourceRefContent returns for it: the file its ref names
refContentOf(d) ==
  IF d.ref = "path" /\ d.refExists
    THEN [null |-> FALSE, text |-> Text(<<>>, <<"r">>)]
    ELSE [null |-> TRUE, text |-> NoText]

\* the handler of lines 268-327 on one task: what it leaves behind
handled(name, task, l, now, title, env) ==
  IF name = "translateConfig"
    THEN IF env.translateFails \/ env.writeFails
           THEN Thrown
           ELSE Wrote(Text(<<>>, translated(<<"c">>)))
  ELSE IF name = "translateDoc"
    THEN translateDoc(sourceFileOf(repo.docs[task.docPath]), title,
                      refContentOf(repo.docs[task.docPath]), now, env)
  ELSE IF name = "copyDoc"
    THEN copyDoc(sourceFileOf(repo.docs[task.docPath]), DocsRoot,
                 translatedRootOf(l), now, env.writeFails)
  ELSE ReturnedEarly

\* the clock of the runs that are followed from end to end: main is run
\* after the last commit
RunTimes == {MaxTime}

\* data['translation-updated-at'] of a file, as getDocUpdateStatus will
\* read it (utils.ts 236-240)
writtenStamp(file) ==
  LET value == get(matter(file).data, "translation-updated-at")
  IN  CASE value.kind = "iso" -> [kind |-> "date", t |-> value.t]
        [] value.kind = "string" /\ value.s = <<>> -> [kind |-> "empty", t |-> 0]
        [] value.kind = "string" -> [kind |-> "invalid", t |-> 0]
        [] OTHER -> [kind |-> "absent", t |-> 0]

\* the processor of item i settles: it returned or it threw, and a throw is
\* caught and logged by executeInBatches
FinishTask(i) ==
  /\ i \in DOMAIN jobs
  /\ jobs[i].state = "running"
  /\ \E now \in RunTimes, title \in Titles, env \in Environments :
       \E job \in {jobs[i]} :
       \E out \in {handled(job.invoked[Len(job.invoked)], job.task,
                           job.task.targetPath[1], now, title, env)} :
           jobs' = [jobs EXCEPT ![i] =
                      [job EXCEPT !.state = IF out.outcome = "threw"
                                              THEN "failed" ELSE "done",
                                  !.wrote = out.outcome = "wrote",
                                  !.body = IF out.outcome = "wrote"
                                             THEN out.file.body ELSE <<>>,
                                  !.stamp = writtenStamp(out.file)]]
  /\ UNCHANGED <<pc, docIndex, doc, status, tasks, lang, listOnly, repo,
                 dirMade, concurrency, results>>
  /\ UNCHANGED <<refVars, secVars, cfgVars, writeVars, entryVars>>

\* executeInBatches returns when nothing is left to wait for
returnsBeforeSettled(js) == \A i \in DOMAIN js : js[i].state # "pending"

returnsWhen(js) == \A i \in DOMAIN js : Settled(js[i])

\* the results: those of the items whose processor returned, in input order
successesAndFailures(js) == [i \in DOMAIN js |-> js[i].task.docPath]

successes(js) ==
  LET done == SelectSeq(js, LAMBDA job : job.state = "done")
  IN  [i \in DOMAIN done |-> done[i].task.docPath]

ReturnBatch ==
  /\ pc = "dispatch"
  /\ returnsWhen(jobs)
  /\ results' = successes(jobs)
  /\ pc' = "dispatched"
  /\ UNCHANGED <<docIndex, doc, status, tasks, lang, listOnly, repo, dirMade,
                 concurrency, jobs>>
  /\ UNCHANGED <<refVars, secVars, cfgVars, writeVars, entryVars>>

\* line 105: the loop goes on with the next language
NextLanguage ==
  /\ pc = "dispatched"
  /\ lang < MaxLangs
  /\ lang' = lang + 1
  /\ pc' = "language"
  /\ dirMade' = FALSE
  /\ docIndex' = 0
  /\ tasks' = <<>>
  /\ results' = <<>>
  /\ UNCHANGED <<doc, status, listOnly, repo, concurrency, jobs>>
  /\ UNCHANGED <<refVars, secVars, cfgVars, writeVars, entryVars>>

\* line 332: main returns after the last language
EndRun ==
  /\ pc = "dispatched"
  /\ lang = MaxLangs
  /\ pc' = "finished"
  /\ UNCHANGED <<docIndex, doc, status, tasks, runVars>>
  /\ UNCHANGED <<refVars, secVars, cfgVars, writeVars, entryVars>>

\* $translateConfig, src/src/openai.ts 113-230: a deep copy of the
\* configuration in which the value of every label is its translation
RECURSIVE translateConfig(_)
translateConfig(docsConfig) ==
  CASE docsConfig.t = "prim" -> docsConfig
    [] docsConfig.t = "arr" ->
         [docsConfig EXCEPT !.items =
            [k \in DOMAIN docsConfig.items |->
               <<"", translateConfig(docsConfig.items[k][2])>>]]
    [] docsConfig.t = "obj" ->
         Obj([k \in DOMAIN docsConfig.items |->
                IF docsConfig.items[k][1] = "label"
                     /\ docsConfig.items[k][2].t = "prim"
                  THEN <<"label", Prim("translated")>>
                  ELSE <<docsConfig.items[k][1],
                         translateConfig(docsConfig.items[k][2])>>])

\* the repository after the pass of language l: what the processors wrote
\* is on disk
afterPass(r, js, l) ==
  LET writers(k) == {i \in DOMAIN js : /\ js[i].task.targetPath = <<l, k>>
                                        /\ js[i].wrote}
  IN  [r EXCEPT
         !.docs = [k \in DOMAIN r.docs |->
                     IF writers(k) # {}
                       THEN [r.docs[k] EXCEPT
                               !.tgtExists = TRUE,
                               !.stamp = js[CHOOSE i \in writers(k) : TRUE].stamp]
                       ELSE r.docs[k]],
         !.translatedConfig[l] =
            IF writers(0) # {} THEN translateConfig(r.config[1]) ELSE @]

\* main is run again for the last language, after a pass that was not
\* list-only and in which no task failed; the sources, their commit times
\* and the configuration are as they were
RunAgain ==
  /\ pc = "dispatched"
  /\ lang = MaxLangs
  /\ ~ listOnly
  /\ ~ repo.again
  /\ \A i \in DOMAIN jobs : jobs[i].state = "done"
  /\ repo' = [afterPass(repo, jobs, lang) EXCEPT !.again = TRUE]
  /\ pc' = "language"
  /\ dirMade' = FALSE
  /\ docIndex' = 0
  /\ tasks' = <<>>
  /\ results' = <<>>
  /\ UNCHANGED <<doc, status, lang, listOnly, concurrency, jobs>>
  /\ UNCHANGED <<refVars, secVars, cfgVars, writeVars, entryVars>>

\* executeInBatches alone: any list of items, any width; the processor
\* translates or copies a new document, and fails when a collaborator does
BatchTasks(n) ==
  {[i \in 1..n |-> [docPath |-> i, shouldTranslate |-> flags[i],
                    targetPath |-> <<MaxLangs, i>>, isConfig |-> FALSE]] :
     flags \in [1..n -> BOOLEAN]}
BatchDocs ==
  {d \in {SampleDocs[i] : i \in DOMAIN SampleDocs} :
     /\ d.ref = "absent" /\ d.srcGit # <<>> /\ d.ownStamp.kind = "absent"
     /\ ~ d.tgtExists /\ ~ d.isCopyPath}

InitBatch ==
  /\ pc = "dispatch"
  /\ docIndex = 0
  /\ doc = NoDoc
  /\ status = NoStatus
  /\ \E n \in 0..MaxTasks :
       /\ tasks \in BatchTasks(n)
       /\ repo \in {[AnyRepo EXCEPT !.known = TRUE, !.docs = ds] :
                      ds \in [1..n -> BatchDocs]}
  /\ jobs = [i \in DOMAIN tasks |-> NewJob(tasks[i])]
  /\ lang = MaxLangs
  /\ listOnly = FALSE
  /\ dirMade = TRUE
  /\ concurrency \in 1..MaxWidth
  /\ results = <<>>

----------------------------------------------------------------------------
(* main, src/src/main.ts 19-165 and 332: the choice of the languages and   *)
(* the discovery of the documents of each pass.  A string is a sequence of *)
(* characters; a document is named by its path relative to docsRoot        *)
(* without the .md extension, as findDocFiles returns it.                  *)

\* String.prototype.toLowerCase
toLowerCase(str) ==
  [i \in DOMAIN str |->
     CASE str[i] = "F" -> "f"
       [] str[i] = "R" -> "r"
       [] str[i] = "E" -> "e"
       [] str[i] = "S" -> "s"
       [] OTHER -> str[i]]

\* String.prototype.startsWith
startsWith(str, prefix) ==
  Len(prefix) <= Len(str) /\ SubSeq(str, 1, Len(prefix)) = prefix

\* lines 30-36: the languages main goes through; an empty or undefined
\* targetLanguage is falsy and selects them all
filteredLangsExact(configured, target) ==
  IF target # <<>>
    THEN SelectSeq(configured, LAMBDA key : key = target)
    ELSE configured

filteredLangs(configured, target) ==
  IF target # <<>>
    THEN SelectSeq(configured,
                   LAMBDA key : toLowerCase(key) = toLowerCase(target))
    ELSE configured

\* lines 136-138: the prefixes of the language directories
langPatternsOfSelected(configured, selected) ==
  {toLowerCase(selected[k]) \o <<"/">> : k \in DOMAIN selected}

langPatterns(configured, selected) ==
  {toLowerCase(configured[k]) \o <<"/">> : k \in DOMAIN configured}

\* lines 140-149: the paths found that start with none of the prefixes
filteredPaths(found, patterns) ==
  {filePath \in found :
     ~ \E langPattern \in patterns : startsWith(filePath, langPattern)}

\* line 228 with line 110: path.join(docsRoot, lang.toLowerCase(), docPath),
\* relative to docsRoot
targetPathOf(code, docPath) == toLowerCase(code) \o <<"/">> \o docPath

\* the codes a configuration may hold, the target languages asked for
\* (none, and codes in any case, of which one is not configured) and the
\* documents found under docsRoot before the run
SampleCodes == {<<"f", "r">>, <<"F", "R">>, <<"e", "s">>}
SampleTargets ==
  {<<>>, <<"f", "r">>, <<"f", "R">>, <<"E", "S">>, <<"d", "e">>}
SamplePaths ==
  {<<"f", "r", "a">>, <<"f", "r", "/", "a">>, <<"e", "s", "/", "a">>}

IdleEntry ==
  /\ epc = "idle"
  /\ langs = <<>>
  /\ targetLanguage = <<>>
  /\ LANGUAGES = <<>>
  /\ place = 0
  /\ disk = {}
  /\ docPaths = {}
  /\ made = {}
  /\ configRead = FALSE
  /\ written = {}
  /\ passes = <<>>

InitEntry ==
  /\ epc = "start"
  /\ langs \in {ls \in UNION {[1..n -> SampleCodes] : n \in 1..MaxLangs} :
                  \A i, j \in DOMAIN ls : i # j => ls[i] # ls[j]}
  /\ targetLanguage \in SampleTargets
  /\ LANGUAGES = <<>>
  /\ place = 0
  /\ disk \in SUBSET SamplePaths
  /\ docPaths = {}
  /\ made = {}
  /\ configRead = FALSE
  /\ written = {}
  /\ passes = <<>>

\* lines 29-48: the languages are selected; when a target language was
\* asked for and none is left, main warns and returns
SelectLanguages ==
  /\ epc = "start"
  /\ LANGUAGES' = filteredLangs(langs, targetLanguage)
  /\ epc' = IF targetLanguage # <<>> /\ LANGUAGES' = <<>>
              THEN "warned" ELSE "selected"
  /\ UNCHANGED <<langs, targetLanguage, place, disk, docPaths, made,
                 configRead, written, passes>>
  /\ UNCHANGED <<mainVars, refVars, secVars, cfgVars, writeVars>>

\* line 60: the configuration of the documentation is read
ReadDocsConfig ==
  /\ epc = "selected"
  /\ configRead' = TRUE
  /\ place' = 1
  /\ epc' = "loop"
  /\ UNCHANGED <<langs, targetLanguage, LANGUAGES, disk, docPaths, made,
                 written, passes>>
  /\ UNCHANGED <<mainVars, refVars, secVars, cfgVars, writeVars>>

\* lines 105-115: a pass begins by creating the directory of its language
BeginPass ==
  /\ epc = "loop"
  /\ place <= Len(LANGUAGES)
  /\ made' = made \cup {toLowerCase(LANGUAGES[place])}
  /\ epc' = "find"
  /\ UNCHANGED <<langs, targetLanguage, LANGUAGES, place, disk, docPaths,
                 configRead, written, passes>>
  /\ UNCHANGED <<mainVars, refVars, secVars, cfgVars, writeVars>>

\* lines 128-153: the documents are found on disk (docsPath is **/*.md)
\* and those of the language directories are left out
FindDocuments ==
  /\ epc = "find"
  /\ docPaths' = filteredPaths(disk, langPatterns(langs, LANGUAGES))
  /\ epc' = "pass"
  /\ UNCHANGED <<langs, targetLanguage, LANGUAGES, place, disk, made,
                 configRead, written, passes>>
  /\ UNCHANGED <<mainVars, refVars, secVars, cfgVars, writeVars>>

\* lines 167-328: the documents of the pass that pass the include pattern,
\* need updating and are carried out with success are written to the
\* directory of the language: any of docPaths, or none (as in list-only
\* mode)
RunPass ==
  /\ epc = "pass"
  /\ \E updated \in SUBSET docPaths :
       LET outputs == {targetPathOf(LANGUAGES[place], docPath) :
                         docPath \in updated}
       IN  /\ written' = written \cup outputs
           /\ disk' = disk \cup outputs
  /\ passes' = Append(passes, LANGUAGES[place])
  /\ place' = place + 1
  /\ epc' = "loop"
  /\ UNCHANGED <<langs, targetLanguage, LANGUAGES, docPaths, made, configRead>>
  /\ UNCHANGED <<mainVars, refVars, secVars, cfgVars, writeVars>>

\* line 332: main returns after the last language
Return ==
  /\ epc = "loop"
  /\ place > Len(LANGUAGES)
  /\ epc' = "finished"
  /\ UNCHANGED <<langs, targetLanguage, LANGUAGES, place, disk, docPaths,
                 made, configRead, written, passes>>
  /\ UNCHANGED <<mainVars, refVars, secVars, cfgVars, writeVars>>

----------------------------------------------------------------------------
(* The specifications *)

Init == InitMain /\ IdleRef /\ IdleSec /\ IdleCfg /\ IdleWrite
  /\ IdleEntry

Next == EvaluateDoc \/ PushTask \/ FinishStatus

Spec == Init /\ [][Next]_vars

InitSpecRef == IdleMain /\ InitRef /\ IdleSec /\ IdleCfg /\ IdleWrite
  /\ IdleEntry

SpecRef == InitSpecRef /\ [][NextRef]_vars

InitSpecSections == IdleMain /\ IdleRef /\ InitSec /\ IdleCfg /\ IdleWrite
  /\ IdleEntry

NextSections == ApplyReplaceSections

SpecSections == InitSpecSections /\ [][NextSections]_vars

InitSpecConfig == IdleMain /\ IdleRef /\ IdleSec /\ InitCfg /\ IdleWrite
  /\ IdleEntry

NextConfig == CheckConfig

SpecConfig == InitSpecConfig /\ [][NextConfig]_vars

InitSpecPaths == IdleMain /\ IdleRef /\ IdleSec /\ InitPaths /\ IdleWrite
  /\ IdleEntry

NextPaths == ExtractDocPaths

SpecPaths == InitSpecPaths /\ [][NextPaths]_vars

InitSpecWrite == IdleMain /\ IdleRef /\ IdleSec /\ IdleCfg /\ InitWrite
  /\ IdleEntry

NextWrite == CopyDoc \/ TranslateDoc

SpecWrite == InitSpecWrite /\ [][NextWrite]_vars

InitSpecMain == InitPipeline /\ IdleRef /\ IdleSec /\ IdleCfg /\ IdleWrite
  /\ IdleEntry

NextMain ==
  \/ MakeDirectory
  \/ ConfigStatus
  \/ EvaluateDoc
  \/ PushTask
  \/ FinishStatus
  \/ Dispatch
  \/ StartBatch
  \/ \E i \in 1..(MaxDocs + 1) : FinishTask(i)
  \/ ReturnBatch
  \/ NextLanguage
  \/ EndRun

SpecMain == InitSpecMain /\ [][NextMain]_vars

InitSpecRerun == InitSpecMain

NextRerun == NextMain \/ RunAgain

SpecRerun == InitSpecRerun /\ [][NextRerun]_vars

InitSpecBatch == InitBatch /\ IdleRef /\ IdleSec /\ IdleCfg /\ IdleWrite
  /\ IdleEntry

NextBatch ==
  \/ StartBatch
  \/ \E i \in 1..MaxTasks : FinishTask(i)
  \/ ReturnBatch
  \/ EndRun

SpecBatch == InitSpecBatch /\ [][NextBatch]_vars

InitSpecEntry ==
  IdleMain /\ IdleRef /\ IdleSec /\ IdleCfg /\ IdleWrite /\ InitEntry

NextEntry ==
  \/ SelectLanguages
  \/ ReadDocsConfig
  \/ BeginPass
  \/ FindDocuments
  \/ RunPass
  \/ Return

SpecEntry == InitSpecEntry /\ [][NextEntry]_vars

\* executeInBatches goes on as long as it can, and every processor that
\* was started settles: the handler awaits calls that return or throw
FairSpecBatch ==
  /\ SpecBatch
  /\ WF_vars(StartBatch)
  /\ WF_vars(ReturnBatch)
  /\ \A i \in 1..MaxTasks : WF_vars(FinishTask(i))

----------------------------------------------------------------------------
(* Properties of getDocUpdateStatus and shouldTranslateDoc, checked in the  *)
(* states where main has just received a status (pc = "docEvaluated") or   *)
(* was aborted by the error (pc = "aborted").                              *)

HasRef(d) == d.ref = "path"
Later(a, b) == IF b > a THEN b ELSE a
\* the source exists, its ref file (if any) exists, both have history
SourceReadable(d) == d.srcExists /\ (HasRef(d) => d.refExists)
EffectiveTime(d) ==
  IF HasRef(d) THEN Later(d.srcGit[1], d.refGit[1]) ELSE d.srcGit[1]

\* C1 as stated: with source and target present and the target carrying a
\* translation-updated-at T, shouldUpdate is false when T >= the source's
\* own last-commit time and true when T is strictly less.
C1_OwnCommitTimeDecides ==
  (pc = "docEvaluated" /\ doc.srcExists /\ doc.tgtExists /\ doc.stamp.kind = "date")
    => (status.shouldUpdate <=> doc.stamp.t < doc.srcGit[1])

\* C1 amended: with source, its ref file (if it has a ref) and target present
\* and the target carrying a timestamp T, shouldUpdate is false when T >= M
\* and true when T < M, M being the source's last-commit time or, for a
\* source with a ref, the later of its and the ref file's last-commit times.
C1_EffectiveTimeDecides ==
  (pc = "docEvaluated" /\ SourceReadable(doc) /\ doc.tgtExists
     /\ doc.stamp.kind = "date")
    => (status.shouldUpdate <=> doc.stamp.t < EffectiveTime(doc))

C1_Witness ==
  /\ pc = "docEvaluated" /\ HasRef(doc) /\ doc.refExists /\ doc.tgtExists
  /\ doc.stamp.kind = "date"
  /\ doc.srcGit[1] <= doc.stamp.t /\ doc.stamp.t < doc.refGit[1]
  /\ status.shouldUpdate

\* C2: for a source with a ref whose file exists, the time compared with the
\* target's timestamp is the later of the source's and the ref file's
\* last-commit times, and the staleness verdict follows that time.
C2_LaterOfSourceAndRef ==
  (pc = "docEvaluated" /\ HasRef(doc) /\ doc.refExists)
    => /\ status.compared.valid
       /\ status.compared.t >= doc.srcGit[1]
       /\ status.compared.t >= doc.refGit[1]
       /\ status.compared.t \in {doc.srcGit[1], doc.refGit[1]}
       /\ (doc.tgtExists /\ doc.stamp.kind = "date")
            => (status.shouldUpdate <=> status.compared.t > doc.stamp.t)

C2_Witness ==
  /\ pc = "docEvaluated" /\ HasRef(doc) /\ doc.refExists
  /\ doc.refGit[1] > doc.srcGit[1]
  /\ status.compared = DateOf(doc.refGit[1])
  /\ doc.tgtExists /\ doc.stamp.kind = "date" /\ doc.stamp.t = doc.srcGit[1]
  /\ status.shouldUpdate

\* C3: every returned status has shouldUpdate = false => shouldTranslate =
\* false, also when shouldTranslateDoc said yes for the source.
C3_NoUpdateNoTranslate ==
  (pc = "docEvaluated") =>
    /\ status.outcome = "returned"
    /\ (~ status.shouldUpdate => ~ status.shouldTranslate)

C3_Witness ==
  /\ pc = "docEvaluated" /\ status.verdict = "yes" /\ shouldTranslateDoc(doc)
  /\ status.at = "upToDate"
  /\ ~ status.shouldUpdate /\ ~ status.shouldTranslate

MissingSourceOrRef(d) == ~ d.srcExists \/ (HasRef(d) /\ ~ d.refExists)

C5_MissingFilesNeverRaise ==
  (pc \in {"docEvaluated", "aborted"} /\ MissingSourceOrRef(doc))
    => /\ pc = "docEvaluated"
       /\ status.outcome = "returned"
       /\ ~ status.shouldUpdate /\ ~ status.shouldTranslate

\* C5 amended: a missing source, and likewise a ref naming a missing file in
\* a source that has commit history, gives (false, false) without an error,
\* whatever the target, and the loop goes on to the next document.
C5_MissingFilesWithHistory ==
  (pc \in {"docEvaluated", "aborted"}
     /\ (~ doc.srcExists \/ (HasRef(doc) /\ ~ doc.refExists /\ doc.srcGit # <<>>)))
    => /\ pc = "docEvaluated"
       /\ status.outcome = "returned"
       /\ ~ status.shouldUpdate /\ ~ status.shouldTranslate
       /\ ENABLED PushTask

C5_Witness ==
  /\ pc = "docEvaluated" /\ HasRef(doc) /\ ~ doc.refExists
  /\ doc.tgtExists /\ doc.stamp.kind = "date" /\ doc.stamp.t < doc.srcGit[1]
  /\ status.at = "refMissing" /\ ~ status.shouldUpdate
  /\ docIndex + 1 < MaxDocs

\* C6: the verdict of shouldTranslateDoc is: with no ref, body non-empty;
\* with a ref, the literal needs-translation when it is the boolean true or
\* false, otherwise a replace key containing a space or a non-empty body.
HasSpaceKey(d) == \E key \in ReplaceKeys(d.replace) : IncludesSpace(key)
Decision(d) ==
  CASE ~ HasRef(d) -> d.content # <<>>
    [] HasRef(d) /\ d.needsTranslation = "true" -> TRUE
    [] HasRef(d) /\ d.needsTranslation = "false" -> FALSE
    [] OTHER -> HasSpaceKey(d) \/ d.content # <<>>

C6_DecisionTable ==
  (pc = "docEvaluated" /\ SourceReadable(doc))
    => status.verdict = Verdict(Decision(doc))

C6_Witness ==
  /\ pc = "docEvaluated" /\ HasRef(doc) /\ doc.refExists
  /\ doc.needsTranslation = "false" /\ doc.replace = "spaceKey"
  /\ doc.content # <<>>
  /\ status.verdict = "no"

----------------------------------------------------------------------------
(* Properties of getSourceRefContent *)

\* the number of files, starting at path, that each hold a ref (at most fuel)
RECURSIVE RefsFrom(_, _, _)
RefsFrom(fs, path, fuel) ==
  IF fuel = 0 THEN 0
  ELSE IF fs[path].exists /\ ~ fs[path].malformed /\ fs[path].data.ref # NoRef
    THEN 1 + RefsFrom(fs, fs[path].data.ref, fuel - 1)
  ELSE 0

\* file1 -> ... -> file5 -> file1
Cycle5(fs) ==
  /\ RefsFrom(fs, Paths[1], 5) = 5
  /\ fs[Paths[5]].data.ref = Paths[1]

\* C7: getSourceRefContent terminates: until it has returned a step is
\* enabled (CanReadFile is all that ReadFile asks of the state), and every step returns or raises the depth, which never exceeds
\* maxDepth; no call reads more files than maxDepth; and a chain of refs
\* nested 5 deep (the first four files each naming the next, so that a
\* fifth document hangs under them), cyclic or not, resolves to null.
C7_BoundedResolution ==
  /\ [](Len(reads) <= maxDepth /\ currentDepth <= maxDepth)
  /\ [](rpc = "done" \/ CanReadFile \/ ENABLED DepthExceeded)
  /\ [][rpc' = "done" \/ currentDepth' = currentDepth + 1]_vars
  /\ []((rpc = "done" /\ RefsFrom(files, Paths[1], 4) >= 4) => resolved = Null)

C7_Witness ==
  /\ rpc = "done" /\ Cycle5(files)
  /\ resolved = Null
  /\ reads = <<Paths[1], Paths[2], Paths[3]>>

\* A -> B -> terminal: file1 and file2 hold refs, file3 is a terminal document
TwoHops(fs) ==
  /\ RefsFrom(fs, Paths[1], 3) = 2
  /\ fs[Paths[3]].exists /\ ~ fs[Paths[3]].malformed

ApplyNode(text, node) == replaceSections(replaceContent(text, node), node)

\* C8: for a chain A -> B -> terminal the content resolved for A is the
\* terminal content after the replace substitutions and section overrides
\* of B and then of A have been applied.
C8_AllNodesApplied ==
  (rpc = "done" /\ TwoHops(files))
    => resolved = ApplyNode(ApplyNode(RawText(files[Paths[3]]), files[Paths[2]]),
                            files[Paths[1]])

\* R -> T: file1 holds a ref to file2, a terminal document
OneHop(fs) ==
  /\ RefsFrom(fs, Paths[1], 2) = 1
  /\ fs[Paths[2]].exists /\ ~ fs[Paths[2]].malformed
\* a document without ref
NoHop(fs) == fs[Paths[1]].exists /\ RefsFrom(fs, Paths[1], 1) = 0

\* C25: for a chain R -> T the call returns the text of T with the replace
\* map of R applied throughout and then the sections of the body of R
\* spliced in, in that order, so that what is spliced in from R is not
\* subject to the replace map of R; for a document without ref it returns
\* the text of the file as it is.
C25_OneHopReplaceThenSplice ==
  /\ (rpc = "done" /\ OneHop(files)) =>
       resolved = replaceSections(replaceContent(RawText(files[Paths[2]]),
                                                 files[Paths[1]]),
                                  files[Paths[1]])
  /\ (rpc = "done" /\ NoHop(files)) => resolved = RawText(files[Paths[1]])

\* R maps y to z and overrides section a by y: in the text x [a] x [a] y
\* of T the y of T has become z and the y spliced in has not
C25_Witness ==
  /\ rpc = "done"
  /\ OneHop(files)
  /\ files[Paths[1]].data.replace = << <<"y", <<"z">> >> >>
  /\ files[Paths[1]].content = MarkA \o <<"y">> \o MarkA
  /\ RawText(files[Paths[2]]) = <<"x">> \o MarkA \o <<"x">> \o MarkA \o <<"y">>
  /\ resolved = <<"x", "y", "z">>

\* C26: for a chain A -> B -> terminal the call returns the text of the
\* terminal document with the replace map and the sections of B applied,
\* whatever the replace map and the body of A are.
C26_OnlyLastHopApplied ==
  (rpc = "done" /\ TwoHops(files)) =>
     resolved = replaceSections(replaceContent(RawText(files[Paths[3]]),
                                               files[Paths[2]]),
                                files[Paths[2]])

\* A maps x to y and overrides section a, B carries nothing: the text
\* x [a] x [a] y of the terminal document has only lost its markers
C26_Witness ==
  /\ rpc = "done"
  /\ TwoHops(files)
  /\ files[Paths[1]].data.replace = << <<"x", <<"y">> >> >>
  /\ files[Paths[1]].content = MarkA \o <<"y">> \o MarkA
  /\ files[Paths[2]].data.replace = <<>>
  /\ files[Paths[2]].content = <<>>
  /\ RawText(files[Paths[3]]) = <<"x">> \o MarkA \o <<"x">> \o MarkA \o <<"y">>
  /\ resolved = <<"x", "x", "y">>

\* the file read last by the call
LastRead == files[reads[Len(reads)]]
\* file1 -> file2 -> file3 -> file4, the last a terminal document
FourDocuments(fs) ==
  /\ RefsFrom(fs, Paths[1], 4) = 3
  /\ fs[Paths[4]].exists /\ ~ fs[Paths[4]].malformed

\* C30: a call of getSourceRefContent reads at most 3 files; what it
\* returns is not null only if the file read last, one of the first three
\* of the chain, is a document without ref (or one whose front matter
\* cannot be parsed); and when the first three files each hold a ref, so
\* that a 4th read would be needed, it returns null.
C30_ThreeReads ==
  /\ Len(reads) <= 3
  /\ (rpc = "done" /\ resolved # Null) =>
       /\ reads # <<>>
       /\ RefsFrom(files, Paths[1], 3) = Len(reads) - 1
       /\ LastRead.exists
       /\ LastRead.malformed \/ LastRead.data.ref = NoRef
  /\ (rpc = "done" /\ RefsFrom(files, Paths[1], 3) = 3) => resolved = Null

\* a chain of 4 documents, the fourth a terminal one, resolved to null
\* after three reads
C30_Witness ==
  /\ rpc = "done"
  /\ FourDocuments(files)
  /\ reads = <<Paths[1], Paths[2], Paths[3]>>
  /\ resolved = Null

----------------------------------------------------------------------------
(* Properties of replaceSections *)

SectionNames(text) == {matchAll(text)[k].name : k \in DOMAIN matchAll(text)}

\* the indexes of text that lie inside a marker
InMarker(text) ==
  {i \in 1..Len(text) :
     \E j \in 1..i : markerEndAt(text, j) # 0 /\ i <= markerEndAt(text, j)}
\* text without the characters of its markers
RECURSIVE KeepOutside(_, _, _)
KeepOutside(text, i, drop) ==
  IF i > Len(text) THEN <<>>
  ELSE (IF i \in drop THEN <<>> ELSE <<text[i]>>) \o KeepOutside(text, i + 1, drop)
WithoutMarkers(text) == KeepOutside(text, 1, InMarker(text))

\* C9: when no section name is common to the override source and the
\* target, section splicing returns the target with its marker tokens
\* removed and nothing else changed.
C9_NoCommonSection ==
  (spc = "done" /\ SectionNames(secIn.origin) \cap SectionNames(secIn.text) = {})
    => secOut = WithoutMarkers(secIn.text)

C9_Witness ==
  /\ spc = "done"
  /\ SectionNames(secIn.origin) = {<<"b">>}
  /\ SectionNames(secIn.text) = {<<"a">>}
  /\ secOut = <<"x", "y", "y">>

\* the sections of a text are well formed: each closes with its own name
\* and no name is used twice
WellFormed(text) ==
  LET m == matchAll(text)
  IN  /\ \A k \in DOMAIN m : m[k].name = m[k].closing
      /\ \A j, k \in DOMAIN m : m[j].name = m[k].name => j = k

\* the target with the region of each of its first k sections whose name
\* the origin has replaced by the section of the origin, the last first
RECURSIVE RegionsReplaced(_, _, _, _)
RegionsReplaced(text, k, sections, substitutes) ==
  IF k = 0 THEN text
  ELSE LET section == sections[k]
           replaced ==
             IF mapHas(substitutes, section.name)
               THEN SubSeq(text, 1, section.index - 1)
                      \o mapGet(substitutes, section.name).str
                      \o SubSeq(text, section.index + Len(section.str), Len(text))
               ELSE text
       IN  RegionsReplaced(replaced, k - 1, sections, substitutes)

SplicedExactly(text, origin) ==
  WithoutMarkers(RegionsReplaced(text, Len(matchAll(text)), matchAll(text),
                                 matchAll(origin)))

Shared(text, origin) == SectionNames(text) \cap SectionNames(origin)
\* the shared sections come in the same order in both texts
SameOrder(text, origin) ==
  LET keep(m) == SelectSeq(m, LAMBDA x : x.name \in Shared(text, origin))
      a == keep(matchAll(text))
      b == keep(matchAll(origin))
  IN  Len(a) = Len(b) /\ \A k \in DOMAIN a : a[k].name = b[k].name
\* each shared section is as long in the origin as in the target
SameLengths(text, origin) ==
  \A j \in DOMAIN matchAll(text), k \in DOMAIN matchAll(origin) :
    matchAll(text)[j].name = matchAll(origin)[k].name
      => Len(matchAll(text)[j].str) = Len(matchAll(origin)[k].str)

\* C27: with well-formed sections in both texts, section splicing returns
\* the target with the region of every section whose name the origin also
\* has replaced by the section text of the origin and everything else
\* (but the marker tokens, which are stripped) as it was, for any number of
\* shared sections, in any order in the two texts, of any lengths.
C27_SplicesExactly ==
  (spc = "done" /\ WellFormed(secIn.text) /\ WellFormed(secIn.origin))
    => secOut = SplicedExactly(secIn.text, secIn.origin)

----------------------------------------------------------------------------
(* Properties of shouldTranslateConfig *)

\* the values of the label fields of a configuration, with their depth
RECURSIVE LabelsAt(_, _)
LabelsAt(value, depth) ==
  UNION {IF value.t = "obj" /\ value.items[k][1] = "label"
           THEN {<<depth, value.items[k][2].v>>}
           ELSE LabelsAt(value.items[k][2], depth + 1) : k \in DOMAIN value.items}

\* C10: two configurations that are identical except for the values of
\* label fields, at any nesting depth inside objects or arrays, are
\* reported as needing no re-translation.
C10_LabelsIgnored ==
  (cpc = "done" /\ SameExceptLabels(cfgIn.source, cfgIn.target))
    => cfgOut = FALSE

C10_Witness ==
  /\ cpc = "done"
  /\ SameExceptLabels(cfgIn.source, cfgIn.target)
  /\ <<0, "L1">> \in LabelsAt(cfgIn.source, 0)
  /\ <<0, "L2">> \in LabelsAt(cfgIn.target, 0)
  /\ <<2, "L1">> \in LabelsAt(cfgIn.source, 0)
  /\ <<2, "L2">> \in LabelsAt(cfgIn.target, 0)
  /\ cfgOut = FALSE

\* some change of one of the kinds turns one checked configuration into the other
Changed(kinds) ==
  \/ cfgIn.target \in Edits(cfgIn.source, kinds)
  \/ cfgIn.source \in Edits(cfgIn.target, kinds)

\* C11 as stated: the result is true whenever one configuration is obtained
\* from the other by adding, removing or reordering a non-label field
\* anywhere in the tree, added, removed and reordered nodes and changed to
\* paths included.
C11_AnyStructuralChange ==
  (cpc = "done" /\ Changed(EditKinds)) => cfgOut = TRUE

\* C11 amended: the result is true whenever one configuration is obtained
\* from the other by adding or removing a non-label field or a node,
\* changing a to path, making two non-label fields change places, or making
\* two nodes change places that differ in more than their label fields.
C11_StructuralChange ==
  (cpc = "done" /\ Changed(EditKinds \ {"reorderLabel", "reorderTwins"}))
    => cfgOut = TRUE

C11_Witness ==
  /\ cpc = "done"
  /\ cfgIn.target \in Edits(cfgIn.source, {"reorderNodes"})
  /\ cfgIn.target \notin Edits(cfgIn.source, EditKinds \ {"reorderNodes"})
  /\ cfgOut = TRUE

----------------------------------------------------------------------------
(* Properties of extractDocPaths *)

\* the to values that contain /examples/
ExamplePaths == {"/examples/e", "/a/examples/e"}

\* the object nodes of a tree, each with the nodes above it (nearest last)
RECURSIVE NodesOf(_, _)
NodesOf(value, above) ==
  LET here == IF value.t = "obj" THEN Append(above, value) ELSE above
  IN  (IF value.t = "obj" THEN {[node |-> value, above |-> above]} ELSE {})
      \cup UNION {NodesOf(value.items[k][2], here) : k \in DOMAIN value.items}

HasTo(node, paths) ==
  \E k \in DOMAIN node.items :
     node.items[k][1] = "to" /\ node.items[k][2].v \in paths

\* how many times the nodes of a tree carry the path p as their to
RECURSIVE Occurrences(_, _)
Occurrences(value, p) ==
  LET F[i \in 0..Len(value.items)] ==
        IF i = 0 THEN 0 ELSE F[i - 1] + Occurrences(value.items[i][2], p)
  IN  (IF value.t = "obj" /\ HasTo(value, {p}) THEN 1 ELSE 0) + F[Len(value.items)]

\* C12: extractDocPaths returns exactly the to values of the nodes of the
\* tree, at every depth and also beneath an excluded example node, whose to
\* does not contain /examples/ (a to that is the empty string counts as no
\* to), each as often as nodes carry it; no returned path contains
\* /examples/.
C12_ExactlyNonExamplePaths ==
  (cpc = "done") =>
    /\ \A p \in ToValues \ (ExamplePaths \cup {""}) :
         Cardinality({i \in DOMAIN cfgOut : cfgOut[i] = p})
           = Occurrences(cfgIn.source, p)
    /\ \A i \in DOMAIN cfgOut : cfgOut[i] \in ToValues \ (ExamplePaths \cup {""})

C12_Witness ==
  /\ cpc = "done"
  /\ \E n \in NodesOf(cfgIn.source, <<>>) :
       /\ HasTo(n.node, {"/b"})
       /\ \E k \in DOMAIN n.above : HasTo(n.above[k], ExamplePaths)
  /\ \E n \in NodesOf(cfgIn.source, <<>>) : HasTo(n.node, {"/examples"})
  /\ cfgOut = <<"/examples", "/b">>

----------------------------------------------------------------------------
(* Properties of copyDoc and translateDoc *)

SourceData == wIn.source.text.front
WrittenData == wOut.file.front
HasWritten == wpc = "done" /\ wOut.outcome = "wrote"

\* C16: every target document that translateDoc or copyDoc writes carries
\* source-updated-at and translation-updated-at, the latter being the time
\* of the operation, whatever metadata the source document contains.
C16_BothTimestamps ==
  HasWritten =>
    /\ hasKey(WrittenData, "source-updated-at")
    /\ get(WrittenData, "translation-updated-at") = Iso(wIn.now)

\* the later of the source's and, for a source with a ref, the referenced
\* file's last-commit time
EffectiveInstant ==
  IF isTruthy(get(SourceData, "ref")) /\ wIn.refGit > wIn.source.git[1]
    THEN wIn.refGit
    ELSE wIn.source.git[1]

\* C17: the source-updated-at written into a target document is the
\* source's last effective modification time: for a source with a ref, the
\* later of the source's and the referenced file's last-commit times.
C17_EffectiveSourceTime ==
  HasWritten => get(WrittenData, "source-updated-at") = Iso(EffectiveInstant)

\* C18: every metadata key of the source is carried into the written target
\* with its value unchanged, for translated and copied documents, but for
\* ref on copy (rewritten into the translated tree) and title when a
\* translated label is available.
C18_MetadataCarried ==
  HasWritten =>
    \A i \in DOMAIN SourceData :
       LET key == SourceData[i][1]
       IN  \/ get(WrittenData, key) = SourceData[i][2]
           \/ /\ key = "ref" /\ wIn.op = "copyDoc"
              /\ SubSeq(SourceData[i][2].s, 1, Len(DocsRoot) + 1) = DocsRoot \o <<"/">>
                   => get(WrittenData, key)
                        = Str(LangRoot \o <<"/">>
                                \o substring(SourceData[i][2].s, Len(DocsRoot) + 1))
           \/ key = "title" /\ wIn.op = "translateDoc" /\ wIn.title # Undefined

----------------------------------------------------------------------------
(* The run of main *)

\* the tasks of the current pass that were handed to a handler
Invoked(name) ==
  {i \in DOMAIN jobs : \E k \in DOMAIN jobs[i].invoked : jobs[i].invoked[k] = name}
DirectoryDue == pc \notin {"language", "idle"}

\* C13: a run of main in list-only mode invokes no handler (neither the
\* translation of the configuration or of a document, nor copyDoc) and so
\* writes no file of a target language, whatever is stale; the directory of
\* each language it passes is created all the same.
C13_ListOnlyWritesNothing ==
  listOnly =>
    /\ \A i \in DOMAIN jobs : jobs[i].invoked = <<>> /\ ~ jobs[i].wrote
    /\ results = <<>>
    /\ DirectoryDue => dirMade

\* a list-only run that ended with the configuration, a document to
\* translate and a document to copy all listed as stale
C13_Witness ==
  /\ listOnly
  /\ pc = "finished"
  /\ dirMade
  /\ \E i, j, k \in DOMAIN tasks :
       /\ tasks[i].isConfig
       /\ ~ tasks[j].isConfig /\ tasks[j].shouldTranslate
       /\ ~ tasks[k].isConfig /\ ~ tasks[k].shouldTranslate

\* the document a task of the current run is about
DocOf(task) == repo.docs[task.docPath]
\* the processors of the documents of the copy set
CopyJobs ==
  {i \in DOMAIN jobs : ~ jobs[i].task.isConfig /\ DocOf(jobs[i].task).isCopyPath}

JobsFor(k) ==
  {i \in DOMAIN jobs : /\ ~ jobs[i].task.isConfig
                        /\ jobs[i].task.targetPath = <<lang, k>>}
DocumentActions == {"translateDoc", "copyDoc"}

\* C15: in a pass that is not list-only, when executeInBatches has
\* returned, every document with shouldUpdate = true has had exactly one
\* of translateDoc and copyDoc invoked for it, once; a document with
\* shouldUpdate = false has neither; and at no moment has a document had
\* both or had one of them twice.
C15_ExactlyOneAction ==
  /\ \A i \in DOMAIN jobs :
       ~ jobs[i].task.isConfig =>
         /\ Len(jobs[i].invoked) <= 1
         /\ \A k \in DOMAIN jobs[i].invoked : jobs[i].invoked[k] \in DocumentActions
         /\ getDocUpdateStatus(DocOf(jobs[i].task)).shouldUpdate
  /\ \A k \in DOMAIN repo.docs : Cardinality(JobsFor(k)) <= 1
  /\ pc = "dispatched" /\ ~ listOnly =>
       \A k \in DOMAIN repo.docs :
         IF getDocUpdateStatus(repo.docs[k]).shouldUpdate
           THEN \E i \in JobsFor(k) : Len(jobs[i].invoked) = 1
           ELSE JobsFor(k) = {}

\* a pass has ended in which one document was translated and another, up
\* to date, was left alone
C15_Witness ==
  /\ pc = "dispatched"
  /\ ~ listOnly
  /\ \E k \in DOMAIN repo.docs :
       \E i \in JobsFor(k) : jobs[i].invoked = <<"translateDoc">>
  /\ \E k \in DOMAIN repo.docs :
       /\ ~ getDocUpdateStatus(repo.docs[k]).shouldUpdate
       /\ JobsFor(k) = {}

\* the language a processor works for
LanguageOf(job) == job.task.targetPath[1]
\* main is between the start of a pass and its call of executeInBatches
BeforeDispatch == pc \in {"language", "config", "status", "docEvaluated", "evaluated"}

\* C19: the languages are processed one after another: a processor that
\* has not settled (as done or as failed) works for the current language,
\* and none is unsettled while main creates the directory of a language or
\* evaluates its configuration and documents.
C19_OneLanguageAtATime ==
  /\ \A i \in DOMAIN jobs : ~ Settled(jobs[i]) => LanguageOf(jobs[i]) = lang
  /\ BeforeDispatch => \A i \in DOMAIN jobs : Settled(jobs[i])

\* the second pass has created its directory after the first dispatched a
\* configuration task and document tasks, of which one failed and one
\* succeeded
C19_Witness ==
  /\ lang = 2
  /\ pc = "config"
  /\ dirMade
  /\ \E i, j, k \in DOMAIN jobs :
       /\ LanguageOf(jobs[i]) = 1 /\ jobs[i].state = "failed"
       /\ LanguageOf(jobs[j]) = 1 /\ jobs[j].state = "done"
       /\ LanguageOf(jobs[k]) = 1 /\ jobs[k].task.isConfig

\* the processors of the current pass for the configuration
ConfigJobs ==
  {i \in DOMAIN jobs : jobs[i].task.isConfig /\ LanguageOf(jobs[i]) = lang}
\* what shouldTranslateConfig says of the current language
ConfigIsStale ==
  shouldTranslateConfig(repo.config[1], repo.translatedConfig[lang])

\* C22: in a pass that is not list-only, whatever the include pattern and
\* the copy-only pattern: when shouldTranslateConfig is true of the
\* configuration and its translation, the translation of the
\* configuration has been invoked by the time executeInBatches returns,
\* and what it returned was written; when it is false, there is neither
\* a configuration translation nor a configuration write.
C22_ConfigTranslatedIffStale ==
  pc = "dispatched" /\ ~ listOnly =>
    IF ConfigIsStale
      THEN \E i \in ConfigJobs :
             /\ jobs[i].invoked = <<"translateConfig">>
             /\ jobs[i].state = "done" => jobs[i].wrote
      ELSE ConfigJobs = {}

\* the same of the passes whose include pattern lets config.json through
C22_IncludedConfigTranslatedIffStale ==
  repo.included => C22_ConfigTranslatedIffStale

\* a pass translated and wrote the configuration, which was stale
C22_Witness ==
  /\ pc = "dispatched"
  /\ ~ listOnly
  /\ ConfigIsStale
  /\ \E i \in ConfigJobs : jobs[i].state = "done" /\ jobs[i].wrote

\* C23: an error of the version-control oracle for the source of a
\* document, or for the file its ref names, is not caught per document:
\* the status loop never goes on after it, main is left at once, no task
\* of the current language has been or will be dispatched, and no later
\* language is processed (nothing at all changes after the abort).
C23_NoHistoryAborts ==
  /\ [](pc = "docEvaluated" => status.outcome # "threw")
  /\ [](pc = "aborted" =>
         /\ status.outcome = "threw"
         /\ status.at \in {"sourceNoHistory", "refNoHistory"}
         /\ \A i \in DOMAIN jobs : LanguageOf(jobs[i]) # lang)
  /\ [][pc = "aborted" => UNCHANGED vars]_vars

\* the run was aborted in its first language with a task already listed,
\* by a reference document whose ref names a file without history
C23_Witness ==
  /\ pc = "aborted"
  /\ lang = 1
  /\ lang < MaxLangs
  /\ ~ listOnly
  /\ tasks # <<>>
  /\ status.at = "refNoHistory"

----------------------------------------------------------------------------
(* executeInBatches *)

ReturnedToCaller == pc \in {"dispatched", "finished"}
Succeeded == {i \in DOMAIN jobs : jobs[i].state = "done"}

\* C20: in executeInBatches a processor that fails neither cancels nor
\* holds back another: no item is ever attempted twice, and when the call
\* returns (it does return: the failure is not raised) every item has been
\* attempted once and has settled, and the results are those of the items
\* that succeeded, each once, in the order of the input.
C20_FailureSparesSiblings ==
  /\ pc # "aborted"
  /\ \A i \in DOMAIN jobs : Len(jobs[i].invoked) <= 1
  /\ ReturnedToCaller =>
       /\ \A i \in DOMAIN jobs : Len(jobs[i].invoked) = 1 /\ Settled(jobs[i])
       /\ {results[a] : a \in DOMAIN results} = Succeeded
       /\ \A a, b \in DOMAIN results : a < b => results[a] < results[b]

\* a call of width 2 on three items has returned the second and the third
\* after the first, in the same batch as the second, failed
C20_Witness ==
  /\ pc = "dispatched"
  /\ concurrency = 2
  /\ Len(jobs) = 3
  /\ jobs[1].state = "failed"
  /\ jobs[2].state = "done"
  /\ jobs[3].state = "done"
  /\ results = <<2, 3>>

Running == {i \in DOMAIN jobs : jobs[i].state = "running"}

\* C21: at every moment of a call of executeInBatches at most
\* `concurrency` processors are in progress, and, as long as every
\* processor that is started settles, every item is started and settles,
\* after which the call returns.
C21_WidthAndProgress ==
  /\ [](Cardinality(Running) <= concurrency)
  /\ \A i \in 1..MaxTasks :
       (i \in DOMAIN jobs) ~>
         (i \in DOMAIN jobs /\ Len(jobs[i].invoked) = 1 /\ Settled(jobs[i]))
  /\ <>ReturnedToCaller

\* a call of width 2 on three items with the first two in progress and
\* the third waiting
C21_Witness ==
  /\ pc = "dispatch"
  /\ concurrency = 2
  /\ Len(jobs) = 3
  /\ Running = {1, 2}
  /\ jobs[3].state = "pending"


----------------------------------------------------------------------------
(* The languages of a run and the documents of a pass *)

\* the configured languages whose code is the target language but for case
Matching ==
  {k \in DOMAIN langs : toLowerCase(langs[k]) = toLowerCase(targetLanguage)}

\* C24: when a target language is given, main goes through the configured
\* languages whose code equals it but for case, all of them and in their
\* order, and creates the directory of no other language; when there is
\* none, main warns and returns: it never reads the configuration of the
\* documentation, creates no directory and carries out no pass.
C24_OnlyTargetLanguage ==
  targetLanguage # <<>> =>
    /\ made \subseteq {toLowerCase(langs[k]) : k \in Matching}
    /\ \A i \in DOMAIN passes : \E k \in Matching : passes[i] = langs[k]
    /\ epc = "finished" =>
         /\ passes = SelectSeq(langs, LAMBDA code : \E k \in Matching : langs[k] = code)
         /\ made = {toLowerCase(langs[k]) : k \in Matching}
    /\ Matching = {} =>
         /\ epc \in {"start", "warned"}
         /\ ~ configRead
         /\ made = {}
         /\ passes = <<>>
         /\ written = {}
    /\ Matching # {} => epc # "warned"

\* asked for fR, a run over es and fr has ended after the one pass of fr,
\* in which it wrote a document
C24_Witness ==
  /\ epc = "finished"
  /\ targetLanguage = <<"f", "R">>
  /\ langs = <<<<"e", "s">>, <<"f", "r">>>>
  /\ made = {<<"f", "r">>}
  /\ passes = <<<<"f", "r">>>>
  /\ written # {}

\* asked for a language that is not configured, main has warned and
\* returned
C24_WitnessWarned ==
  /\ epc = "warned"
  /\ targetLanguage = <<"d", "e">>
  /\ Matching = {}

\* the path lies under the directory of a configured language
UnderLanguage(docPath) ==
  \E k \in DOMAIN langs :
    LET dir == toLowerCase(langs[k])
    IN  /\ Len(docPath) > Len(dir)
        /\ \A i \in DOMAIN dir : docPath[i] = dir[i]
        /\ docPath[Len(dir) + 1] = "/"

\* C28: no path under the directory of a configured language (its code in
\* lower case), be the language selected or not, is among the documents of
\* a pass; so nothing main wrote is a document of a later pass, and what
\* it writes lies in the directory of a selected language at a path that
\* is not itself under a language directory: there is no nested one.
C28_LanguageDirectoriesExcluded ==
  /\ \A docPath \in docPaths : ~ UnderLanguage(docPath) /\ docPath \notin written
  /\ \A out \in written :
       \E i \in DOMAIN LANGUAGES, docPath \in SamplePaths :
         /\ out = toLowerCase(LANGUAGES[i]) \o <<"/">> \o docPath
         /\ ~ UnderLanguage(docPath)

\* in a run over fr and es restricted to es, fr/a was on disk and was not
\* a document of the pass; the one document was written to es
C28_Witness ==
  /\ epc = "finished"
  /\ langs = <<<<"f", "r">>, <<"e", "s">>>>
  /\ targetLanguage = <<"E", "S">>
  /\ <<"f", "r", "/", "a">> \in disk
  /\ docPaths = {<<"f", "r", "a">>}
  /\ written = {<<"e", "s", "/", "f", "r", "a">>}

\* the second pass of a run found what the first had written, and left
\* it out
C28_WitnessSecondPass ==
  /\ epc = "pass"
  /\ place = 2
  /\ written # {}
  /\ written \subseteq disk
  /\ docPaths # {}

----------------------------------------------------------------------------
(* A second run *)

\* the second pass of the last language is in progress or over
SecondPass == repo.again /\ lang = MaxLangs

\* C29: after a pass that was not list-only and in which no task failed,
\* with the sources, their commit times and the configuration unchanged,
\* the second pass of the same language finds shouldUpdate = false for
\* every document and does not mark the configuration: its task list
\* stays empty, and no processor is started.
C29_SecondPassIsEmpty ==
  SecondPass =>
    /\ tasks = <<>>
    /\ pc = "docEvaluated" => ~ status.shouldUpdate
    /\ pc \in {"dispatch", "dispatched", "finished"} => jobs = <<>>

\* no source holds a translation-updated-at of its own
NoOwnStamp == \A k \in DOMAIN repo.docs : repo.docs[k].ownStamp.kind = "absent"

\* the same of the repositories in which no source holds one
C29_SecondPassIsEmptyWithoutOwnStamp ==
  NoOwnStamp => C29_SecondPassIsEmpty

\* a second pass has ended with nothing to do after a first that
\* translated the configuration and a document and copied another
C29_Witness ==
  /\ SecondPass
  /\ pc = "dispatched"
  /\ tasks = <<>>
  /\ Len(repo.docs) = 2
  /\ \A k \in DOMAIN repo.docs : repo.docs[k].tgtExists /\ repo.docs[k].stamp.kind = "date"
  /\ repo.docs[1].isCopyPath
  /\ ~ repo.docs[2].isCopyPath
  /\ repo.translatedConfig[lang] = translateConfig(repo.config[1])

====
